---- MODULE Spec2Model ----
(***************************************************************************)
(* Verification model of the api-catalog scripts:                          *)
(*   scripts/generate_api_pages.py  (schema rows, Rapid.md extraction,     *)
(*                                   README error table)                   *)
(*   scripts/add_nav_cta_og.py      (nav / CTA / og patching)              *)
(*   scripts/enhance_api_pages.py   (v2 enhancements patching)             *)
(*                                                                         *)
(* Representation.                                                         *)
(*  - Python str values are TLA+ strings; the string operators below       *)
(*    (Find, Strip, Lower, Split, ...) are computed character by character.*)
(*    Some characters cannot be written in a TLA+ string and are replaced  *)
(*    by a stand-in everywhere: the backtick is written "~", the em dash   *)
(*    (U+2014) "=" and the en dash (U+2013) "-".                           *)
(*  - A decoded JSON value is a record [k, s, kids]: k is the Python type  *)
(*    ("null", "bool", "int", "float", "str", "list", "dict", and "other"  *)
(*    for a value of no JSON type), s the scalar's text, kids the members  *)
(*    in order, each [key, val] (key = "" for list elements).              *)
(*  - A Python call that may raise yields [ok, ...]: ok = FALSE stands for *)
(*    an exception leaving the function.                                   *)
(***************************************************************************)
EXTENDS Integers, Sequences, FiniteSets, TLC

(***************************************************************************)
(* Python string primitives                                                *)
(***************************************************************************)
Char(s, i) == SubSeq(s, i, i)

StartsWithAt(s, p, i) ==
    /\ i >= 1
    /\ i + Len(p) - 1 <= Len(s)
    /\ SubSeq(s, i, i + Len(p) - 1) = p

StartsWith(s, p) == StartsWithAt(s, p, 1)

Contains(s, p) == \E i \in 1..(Len(s) - Len(p) + 1) : StartsWithAt(s, p, i)

\* str.find: 0-based index of the first occurrence, -1 when there is none
Find(s, p) ==
    IF Contains(s, p)
    THEN (CHOOSE i \in 1..(Len(s) - Len(p) + 1) :
             /\ StartsWithAt(s, p, i)
             /\ \A j \in 1..(i - 1) : ~StartsWithAt(s, p, j)) - 1
    ELSE -1

Whitespace == {" ", "\t", "\n", "\r"}

RECURSIVE LStrip(_)
LStrip(s) ==
    IF Len(s) > 0 /\ Char(s, 1) \in Whitespace THEN LStrip(Tail(s)) ELSE s

RECURSIVE RStrip(_)
RStrip(s) ==
    IF Len(s) > 0 /\ Char(s, Len(s)) \in Whitespace
    THEN RStrip(SubSeq(s, 1, Len(s) - 1)) ELSE s

\* str.strip()
Strip(s) == RStrip(LStrip(s))

RECURSIVE LStripChar(_, _)
LStripChar(s, c) ==
    IF Len(s) > 0 /\ Char(s, 1) = c THEN LStripChar(Tail(s), c) ELSE s

RECURSIVE RStripChar(_, _)
RStripChar(s, c) ==
    IF Len(s) > 0 /\ Char(s, Len(s)) = c
    THEN RStripChar(SubSeq(s, 1, Len(s) - 1), c) ELSE s

\* str.strip(c) for a one-character argument
StripChar(s, c) == RStripChar(LStripChar(s, c), c)

UpperLetters == "ABCDEFGHIJKLMNOPQRSTUVWXYZ"
LowerLetters == "abcdefghijklmnopqrstuvwxyz"
Digits == "0123456789"

IsCharOf(c, alphabet) == Len(c) = 1 /\ Contains(alphabet, c)

\* str.lower and str.upper, letter by letter
ToLower ==
    [A |-> "a", B |-> "b", C |-> "c", D |-> "d", E |-> "e", F |-> "f", G |-> "g",
     H |-> "h", I |-> "i", J |-> "j", K |-> "k", L |-> "l", M |-> "m", N |-> "n",
     O |-> "o", P |-> "p", Q |-> "q", R |-> "r", S |-> "s", T |-> "t", U |-> "u",
     V |-> "v", W |-> "w", X |-> "x", Y |-> "y", Z |-> "z"]

ToUpper ==
    [a |-> "A", b |-> "B", c |-> "C", d |-> "D", e |-> "E", f |-> "F", g |-> "G",
     h |-> "H", i |-> "I", j |-> "J", k |-> "K", l |-> "L", m |-> "M", n |-> "N",
     o |-> "O", p |-> "P", q |-> "Q", r |-> "R", s |-> "S", t |-> "T", u |-> "U",
     v |-> "V", w |-> "W", x |-> "X", y |-> "Y", z |-> "Z"]

LowerChar(c) == IF c \in DOMAIN ToLower THEN ToLower[c] ELSE c

UpperChar(c) == IF c \in DOMAIN ToUpper THEN ToUpper[c] ELSE c

RECURSIVE Lower(_)
Lower(s) ==
    IF Len(s) <= 1 THEN LowerChar(s)
    ELSE Lower(SubSeq(s, 1, Len(s) \div 2))
         \o Lower(SubSeq(s, Len(s) \div 2 + 1, Len(s)))

RECURSIVE Upper(_)
Upper(s) ==
    IF Len(s) <= 1 THEN UpperChar(s)
    ELSE Upper(SubSeq(s, 1, Len(s) \div 2))
         \o Upper(SubSeq(s, Len(s) \div 2 + 1, Len(s)))

\* str.replace(c, "") for a one-character c
RECURSIVE RemoveChar(_, _)
RemoveChar(s, c) ==
    IF s = "" THEN ""
    ELSE (IF Char(s, 1) = c THEN "" ELSE Char(s, 1)) \o RemoveChar(Tail(s), c)

\* str.split(sep) for a one-character sep: a sequence of strings
RECURSIVE Split(_, _)
Split(s, sep) ==
    IF ~Contains(s, sep) THEN <<s>>
    ELSE LET i == Find(s, sep) + 1
         IN  <<SubSeq(s, 1, i - 1)>> \o Split(SubSeq(s, i + 1, Len(s)), sep)

\* sep.join(parts)
RECURSIVE Join(_, _)
Join(parts, sep) ==
    IF parts = <<>> THEN ""
    ELSE IF Len(parts) = 1 THEN parts[1]
    ELSE parts[1] \o sep \o Join(Tail(parts), sep)

(***************************************************************************)
(* Decoded JSON values                                                     *)
(***************************************************************************)
KV(key, val) == [key |-> key, val |-> val]

JNull == [k |-> "null", s |-> "", kids |-> <<>>]
JTrue == [k |-> "bool", s |-> "True", kids |-> <<>>]
JFalse == [k |-> "bool", s |-> "False", kids |-> <<>>]
JInt(s) == [k |-> "int", s |-> s, kids |-> <<>>]
JFloat(s) == [k |-> "float", s |-> s, kids |-> <<>>]
JStr(s) == [k |-> "str", s |-> s, kids |-> <<>>]
JList(vals) ==
    [k |-> "list", s |-> "",
     kids |-> [i \in 1..Len(vals) |-> KV("", vals[i])]]
JDict(pairs) == [k |-> "dict", s |-> "", kids |-> pairs]
\* a Python value that is none of the JSON types (a set, a tuple, ...)
JOther == [k |-> "other", s |-> "object()", kids |-> <<>>]

\* Python truth value of v
Truthy(v) ==
    CASE v.k = "null" -> FALSE
      [] v.k = "bool" -> v.s = "True"
      [] v.k = "int" -> v.s # "0"
      [] v.k = "float" -> v.s # "0.0"
      [] v.k = "str" -> v.s # ""
      [] v.k \in {"list", "dict"} -> v.kids # <<>>
      [] OTHER -> TRUE

\* key in d
Has(d, key) == \E i \in 1..Len(d.kids) : d.kids[i].key = key

\* d.get(key, default)
GetOr(d, key, default) ==
    IF Has(d, key)
    THEN d.kids[CHOOSE i \in 1..Len(d.kids) : d.kids[i].key = key].val
    ELSE default

\* d.get(key)
Get(d, key) == GetOr(d, key, JNull)

\* repr(v), and str(v): str of a str is the text itself
RECURSIVE PyRepr(_)
RECURSIVE PyReprKids(_, _)
PyReprKids(kids, isDict) ==
    IF kids = <<>> THEN ""
    ELSE LET one == (IF isDict THEN "'" \o kids[1].key \o "': " ELSE "")
                    \o PyRepr(kids[1].val)
         IN  IF Len(kids) = 1 THEN one
             ELSE one \o ", " \o PyReprKids(Tail(kids), isDict)
PyRepr(v) ==
    CASE v.k = "null" -> "None"
      [] v.k = "str" -> "'" \o v.s \o "'"
      [] v.k = "list" -> "[" \o PyReprKids(v.kids, FALSE) \o "]"
      [] v.k = "dict" -> "{" \o PyReprKids(v.kids, TRUE) \o "}"
      [] OTHER -> v.s

PyStr(v) == IF v.k = "str" THEN v.s ELSE PyRepr(v)

\* isinstance(val, types): the classes of the value; bool is a subclass of
\* int in Python
ClassesOf(val) == IF val.k = "bool" THEN {"bool", "int"} ELSE {val.k}

IsInstance(val, types) == ClassesOf(val) \cap types # {}

_infer_type_from_value_IntFirst(val) ==
    IF val.k = "null" THEN "null"
    ELSE IF IsInstance(val, {"int"}) THEN "integer"
    ELSE IF IsInstance(val, {"bool"}) THEN "boolean"
    ELSE IF IsInstance(val, {"int", "float"}) /\ ~IsInstance(val, {"bool"})
    THEN "number"
    ELSE IF IsInstance(val, {"str"}) THEN "string"
    ELSE IF IsInstance(val, {"list"}) THEN "array"
    ELSE IF IsInstance(val, {"dict"}) THEN "object"
    ELSE "any"

\* lines 47-63: the tests in the order of the code
_infer_type_from_value(val) ==
    IF val.k = "null" THEN "null"
    ELSE IF IsInstance(val, {"bool"}) THEN "boolean"
    ELSE IF IsInstance(val, {"int"}) THEN "integer"
    ELSE IF IsInstance(val, {"int", "float"}) /\ ~IsInstance(val, {"bool"})
    THEN "number"
    ELSE IF IsInstance(val, {"str"}) THEN "string"
    ELSE IF IsInstance(val, {"list"}) THEN "array"
    ELSE IF IsInstance(val, {"dict"}) THEN "object"
    ELSE "any"

(***************************************************************************)
(* Schema rows: generate_api_pages.py lines 66-213                         *)
(***************************************************************************)
Row(field, type, description) ==
    [field |-> field, type |-> type, description |-> description]

Returned(rows) == [ok |-> TRUE, rows |-> rows]
Raised == [ok |-> FALSE, rows |-> <<>>]

REQUEST_PAYLOAD_DESCRIPTIONS ==
    [payload |-> "Your data to process (JSON object, array, or string). Structure is defined by you=e.g. object with keys to scan for PII, or raw event/job/shipment payload. Not stored or logged.",
     inputs |-> "Array of input buckets. Each item typically has a platform/source id (e.g. platform, calendarId, retailerId) and a payload or data array. Structure per item is defined by the endpoint; see example and docs.",
     data |-> "Raw payload array or object for this bucket (e.g. events, jobs, tracking data). Structure depends on the platform; you send what you have.",
     before |-> "The original (before) JSON payload to compare. Object or array; structure is defined by your API or data.",
     after |-> "The new (after) JSON payload to compare. Must match general structure of before for a meaningful diff."]

\* "|".join(str(t) for t in typ)
JoinTypes(typ) == Join([i \in 1..Len(typ.kids) |-> PyStr(typ.kids[i].val)], "|")

\* (defn.get("description") or "").strip(): raises AttributeError when the
\* description is a truthy value that is no str
StrippedDescription(defn) ==
    LET d == Get(defn, "description")
        v == IF Truthy(d) THEN d ELSE JStr("")
    IN  IF v.k = "str" THEN [ok |-> TRUE, s |-> Strip(v.s)]
        ELSE [ok |-> FALSE, s |-> ""]

\* the two inner loops (lines 96-107 and 113-124): one row per sub-property
\* whose definition is a mapping; path is field_name + "[]." or field_name + "."
RECURSIVE SubPropertyRows(_, _, _)
SubPropertyRows(kids, path, fallback) ==
    IF kids = <<>> THEN Returned(<<>>)
    ELSE LET subname == kids[1].key
             subdef == kids[1].val
         IN  IF subdef.k # "dict"
             THEN SubPropertyRows(Tail(kids), path, fallback)
             ELSE LET subtyp0 == GetOr(subdef, "type", JStr("any"))
                      subtyp == IF subtyp0.k = "list"
                                THEN JStr(JoinTypes(subtyp0)) ELSE subtyp0
                      subdesc == StrippedDescription(subdef)
                      rest == SubPropertyRows(Tail(kids), path, fallback)
                  IN  IF ~subdesc.ok \/ ~rest.ok THEN Raised
                      ELSE Returned(
                             <<Row(path \o subname, PyStr(subtyp),
                                   IF subdesc.s # "" THEN subdesc.s
                                   ELSE fallback \o subname)>>
                             \o rest.rows)

GenericArrayDescription == "Array of objects; see response example for item shape."
GenericObjectDescription == "Object; structure depends on context."

ArrayRowDescription_NoGeneric(desc) == desc

\* line 109: desc or "Array of objects; ..."
ArrayRowDescription(desc) ==
    IF desc # "" THEN desc ELSE GenericArrayDescription

ObjectRowDescription_NoGeneric(desc) == desc

\* line 126: desc or "Object; ..."
ObjectRowDescription(desc) ==
    IF desc # "" THEN desc ELSE GenericObjectDescription

\* one iteration of the loop of _expand_schema_properties (lines 81-128)
PropertyRows(name, defn, for_request, prefix) ==
    IF defn.k # "dict" THEN Returned(<<>>)
    ELSE
    LET typ0 == Get(defn, "type")
        typ1 == IF typ0.k = "list" THEN JStr(JoinTypes(typ0)) ELSE typ0
        typ == IF Truthy(typ1) THEN PyStr(typ1) ELSE "any"
        desc0 == StrippedDescription(defn)
        desc == IF for_request /\ desc0.s = ""
                   /\ name \in DOMAIN REQUEST_PAYLOAD_DESCRIPTIONS
                THEN REQUEST_PAYLOAD_DESCRIPTIONS[name] ELSE desc0.s
        field_name == IF prefix # "" THEN prefix \o name ELSE name
        items_def == Get(defn, "items")
    IN  IF ~desc0.ok THEN Raised
        ELSE IF typ = "array" /\ items_def.k = "dict"
        THEN LET item_props == Get(items_def, "properties")
             IN  IF Truthy(item_props)
                 THEN IF item_props.k # "dict" THEN Raised
                      ELSE SubPropertyRows(item_props.kids,
                                           field_name \o "[].", "Per-item: ")
                 ELSE Returned(<<Row(field_name, "array", ArrayRowDescription(desc))>>)
        ELSE IF typ = "object"
        THEN LET nested == Get(defn, "properties")
             IN  IF Truthy(nested)
                 THEN IF nested.k # "dict" THEN Raised
                      ELSE SubPropertyRows(nested.kids, field_name \o ".", "")
                 ELSE Returned(<<Row(field_name, "object", ObjectRowDescription(desc))>>)
        ELSE Returned(<<Row(field_name, typ, desc)>>)

RECURSIVE ExpandLoop(_, _, _)
ExpandLoop(kids, for_request, prefix) ==
    IF kids = <<>> THEN Returned(<<>>)
    ELSE LET one == PropertyRows(kids[1].key, kids[1].val, for_request, prefix)
             rest == ExpandLoop(Tail(kids), for_request, prefix)
         IN  IF ~one.ok \/ ~rest.ok THEN Raised
             ELSE Returned(one.rows \o rest.rows)

_expand_schema_properties(properties, for_request, prefix) ==
    IF ~Truthy(properties) \/ properties.k # "dict" THEN Returned(<<>>)
    ELSE ExpandLoop(properties.kids, for_request, prefix)

MemberRows_NoDescription(kids, path, description) ==
    [i \in 1..Len(kids) |->
        Row(path \o kids[i].key, _infer_type_from_value(kids[i].val), "")]

\* rows for the members of one example value (lines 143-148, 150-155;
\* 206-207, 209-210)
MemberRows(kids, path, description) ==
    [i \in 1..Len(kids) |->
        Row(path \o kids[i].key, _infer_type_from_value(kids[i].val),
            IF description = "" THEN "" ELSE description \o kids[i].key)]

IsNonEmptyListOfDict(val) ==
    val.k = "list" /\ Len(val.kids) > 0 /\ val.kids[1].val.k = "dict"

\* the rows one example key contributes (lines 138-157 and 203-212)
ExampleKeyRows(field, val) ==
    LET typ == _infer_type_from_value(val)
    IN  IF typ = "array" /\ IsNonEmptyListOfDict(val)
        THEN MemberRows(val.kids[1].val.kids, field \o "[].", "Per-item: ")
        ELSE IF typ = "object" /\ val.k = "dict"
        THEN MemberRows(val.kids, field \o ".", "")
        ELSE <<Row(field, typ, "")>>

RECURSIVE ExampleLoop(_, _)
ExampleLoop(kids, prefix) ==
    IF kids = <<>> THEN <<>>
    ELSE ExampleKeyRows(IF prefix # "" THEN prefix \o kids[1].key
                        ELSE kids[1].key, kids[1].val)
         \o ExampleLoop(Tail(kids), prefix)

_example_to_rows(obj, prefix) ==
    IF obj.k # "dict" THEN <<>> ELSE ExampleLoop(obj.kids, prefix)

_json_schema_to_rows(schema_json, for_request) ==
    IF ~Truthy(schema_json) \/ schema_json.k # "dict" THEN Returned(<<>>)
    ELSE LET props == Get(schema_json, "properties")
         IN  IF ~Truthy(props) THEN Returned(<<>>)
             ELSE _expand_schema_properties(props, for_request, "")

\* rows that the merge may replace by per-item rows of the example (line 183)
ArrayFieldsWithoutItems(rows) ==
    {rows[i].field : i \in {j \in 1..Len(rows) :
        /\ rows[j].type = "array"
        /\ ~Contains(rows[j].field, "[]")
        /\ \/ rows[j].description = ""
           \/ Contains(Lower(rows[j].description), "see response example")}}

RowsWithoutField(rows, key) == SelectSeq(rows, LAMBDA r : r.field # key)

\* lines 186-196, for the keys of the set in the iteration order `order`
RECURSIVE ReplaceArrayRows(_, _, _)
ReplaceArrayRows(expanded, order, example_json) ==
    IF order = <<>> THEN expanded
    ELSE LET key == order[1]
             val == Get(example_json, key)
         IN  ReplaceArrayRows(
                 IF IsNonEmptyListOfDict(val)
                 THEN RowsWithoutField(expanded, key)
                      \o MemberRows(val.kids[1].val.kids, key \o "[].", "Per-item: ")
                 ELSE expanded,
                 Tail(order), example_json)

\* r["field"].split("[")[0].split(".")[0]
RootSegment(field) == Split(Split(field, "[")[1], ".")[1]

SeenRoots(rows) == {RootSegment(rows[i].field) : i \in 1..Len(rows)}

\* lines 200-212: seen is computed once, before the loop
RECURSIVE AppendUndocumented(_, _)
AppendUndocumented(kids, seen) ==
    IF kids = <<>> THEN <<>>
    ELSE (IF kids[1].key \in seen THEN <<>>
          ELSE ExampleKeyRows(kids[1].key, kids[1].val))
         \o AppendUndocumented(Tail(kids), seen)

\* the rows of the schema alone (lines 173-175)
SchemaRows(schema_json) ==
    IF Truthy(schema_json) /\ schema_json.k = "dict"
       /\ Truthy(Get(schema_json, "properties"))
    THEN _expand_schema_properties(Get(schema_json, "properties"), FALSE, "")
    ELSE Returned(<<>>)

\* all orders in which a Python set with these members may be iterated
IterationOrders(S) ==
    {p \in [1..Cardinality(S) -> S] : \A e \in S : \E i \in 1..Cardinality(S) : p[i] = e}

\* order: the iteration order of the set array_fields_without_items, which
\* Python leaves to the hash seed
_response_schema_from_schema_and_example(schema_json, example_json, order) ==
    LET base == SchemaRows(schema_json)
        isExample == Truthy(example_json) /\ example_json.k = "dict"
    IN  IF ~base.ok THEN Raised
        ELSE IF base.rows = <<>> /\ isExample
        THEN Returned(_example_to_rows(example_json, ""))
        ELSE IF isExample
        THEN LET expanded == ReplaceArrayRows(base.rows, order, example_json)
             IN  Returned(expanded
                          \o AppendUndocumented(example_json.kids, SeenRoots(expanded)))
        ELSE base

\* the largest number of entries of an input mapping
MaxProps == 2

SeqsUpTo(S, n) == UNION {[1..m -> S] : m \in 0..n}

\* ordered mappings with pairwise distinct keys, as a Python dict holds them
Mappings(names, vals, n) ==
    {kids \in SeqsUpTo([key : names, val : vals], n) :
        \A i, j \in 1..Len(kids) : i # j => kids[i].key # kids[j].key}

PropertyNames == {"a", "a.b", "data"}

\* property definitions: well-formed ones and malformed ones
PropertyDefs ==
    { JInt("5"),
      JDict(<<>>),
      JDict(<<KV("type", JStr("string")), KV("description", JStr(" text "))>>),
      JDict(<<KV("type", JList(<<JStr("string"), JStr("null")>>))>>),
      JDict(<<KV("type", JStr("string")), KV("description", JInt("5"))>>),
      JDict(<<KV("type", JStr("object")), KV("description", JInt("5"))>>),
      JDict(<<KV("type", JStr("array"))>>),
      JDict(<<KV("type", JStr("array")), KV("description", JStr("tags"))>>),
      JDict(<<KV("type", JStr("array")), KV("items", JStr("x"))>>),
      JDict(<<KV("type", JStr("array")),
              KV("items", JDict(<<KV("type", JStr("string"))>>))>>),
      JDict(<<KV("type", JStr("array")),
              KV("items", JDict(<<KV("properties",
                  JDict(<<KV("b", JDict(<<KV("type", JStr("integer"))>>)),
                          KV("c", JInt("7"))>>))>>))>>),
      JDict(<<KV("type", JStr("array")),
              KV("items", JDict(<<KV("properties", JStr("x"))>>))>>),
      JDict(<<KV("type", JStr("object"))>>),
      JDict(<<KV("type", JStr("object")), KV("properties", JDict(<<>>)),
              KV("description", JStr("meta"))>>),
      JDict(<<KV("type", JStr("object")),
              KV("properties",
                 JDict(<<KV("b", JDict(<<KV("type", JStr("object")),
                     KV("properties", JDict(<<KV("c", JDict(<<>>))>>))>>))>>))>>),
      JDict(<<KV("type", JStr("object")),
              KV("properties", JList(<<JStr("x")>>))>>) }

\* inputs of the merge: schema properties and example members
MergeNames == {"a", "a[]"}

MergeDefs ==
    { JDict(<<KV("type", JStr("array"))>>),
      JDict(<<KV("type", JStr("array")), KV("description", JStr("tags"))>>),
      JDict(<<KV("type", JStr("array")),
              KV("items", JDict(<<KV("properties",
                  JDict(<<KV("b", JDict(<<KV("type", JStr("integer"))>>))>>))>>))>>),
      JDict(<<KV("type", JStr("object")),
              KV("properties",
                 JDict(<<KV("b", JDict(<<KV("type", JStr("string"))>>))>>))>>),
      JDict(<<KV("type", JStr("string"))>>) }

ExampleNames == {"a", "a[]", "m"}

ExampleValues ==
    { JInt("1"),
      JDict(<<>>),
      JDict(<<KV("b", JInt("1"))>>),
      JList(<<>>),
      JList(<<JDict(<<>>)>>),
      JList(<<JDict(<<KV("b", JInt("1")), KV("c", JStr("x"))>>),
              JDict(<<KV("d", JNull)>>)>>) }

ExpandInputs ==
    {JNull, JList(<<JStr("a")>>)}
    \cup {JDict(kids) : kids \in Mappings(PropertyNames, PropertyDefs, MaxProps)}

\* a schema with a property 'a.b' next to the sub-property b of 'a', and an
\* example with a value for 'a.b'
DottedSchema ==
    JDict(<<KV("properties", JDict(<<
        KV("a", JDict(<<KV("type", JStr("object")),
                        KV("properties", JDict(<<KV("b", JDict(<<KV("type", JStr("string"))>>))>>))>>)),
        KV("a.b", JDict(<<KV("type", JStr("array"))>>))>>))>>)

DottedExample == JDict(<<KV("a.b", JList(<<JDict(<<KV("x", JInt("1"))>>)>>))>>)

SchemaInputs ==
    {JNull, JDict(<<KV("$schema", JStr("http://json-schema.org/draft-07/schema#"))>>),
     DottedSchema}
    \cup {JDict(<<KV("properties", JDict(kids))>>) :
            kids \in Mappings(MergeNames, MergeDefs, MaxProps)}

ExampleInputs ==
    {JNull, JList(<<JInt("1")>>), DottedExample}
    \cup {JDict(kids) : kids \in Mappings(ExampleNames, ExampleValues, MaxProps)}

\* values handed to _infer_type_from_value
InferInputs ==
    { JNull, JTrue, JFalse, JInt("0"), JInt("1"), JFloat("1.5"), JStr(""),
      JStr("x"), JList(<<>>), JDict(<<>>), JOther }
    \cup ExampleValues

(***************************************************************************)
(* Error codes: generate_api_pages.py lines 324-430                        *)
(***************************************************************************)
ERROR_CODE_DESCRIPTIONS ==
    [MISSING_PAYLOAD |-> "Request body is missing the required payload or inputs. Send a JSON object with either payload or inputs array.",
     INVALID_REQUEST |-> "Request is malformed or missing required fields (e.g. payload/inputs). Check the request body and try again.",
     INVALID_JSON |-> "Request body is not valid JSON. Ensure Content-Type is application/json and the body parses correctly.",
     INVALID_MODE |-> "The mode parameter is not one of the allowed values. Check the endpoint docs for valid modes.",
     INVALID_REDACTION_STRATEGY |-> "One or more redaction strategy values are not supported. Use mask, replace, hash, or remove.",
     CONFIG_ERROR |-> "Configuration for the request is invalid (e.g. types, coverageLevel, or redaction options).",
     UNSUPPORTED_INPUT |-> "The input format or structure is not supported by this endpoint.",
     MAX_DEPTH_EXCEEDED |-> "JSON nesting depth exceeds the allowed limit. Flatten or reduce nesting.",
     UNSUPPORTED_MEDIA_TYPE |-> "Content-Type is not supported. Use application/json or the documented type.",
     PAYLOAD_TOO_LARGE |-> "Request body exceeds the maximum allowed size (e.g. 25MB). Send a smaller payload or split the request.",
     INTERNAL_ERROR |-> "An unexpected server error occurred. Retry later; if it persists, check status or contact support.",
     MISSING_HTML |-> "Request must include an html field (string) in the body.",
     INVALID_HTML |-> "The html field must be a non-empty string.",
     URL_FETCH_NOT_SUPPORTED |-> "URL fetching is not supported; send HTML in the body instead.",
     AMBIGUOUS_INPUT |-> "Cannot provide both html and url; use one.",
     FIELD_REMOVED |-> "A field was removed between before and after (breaking change).",
     TYPE_CHANGED |-> "A field's type changed (e.g. number to string) (breaking change).",
     FIELD_ADDED |-> "A new field was added (non-breaking).",
     NULLABILITY_CHANGED |-> "Nullability of a field changed (breaking or non-breaking depending on direction).",
     AUTH_INVALID |-> "Authentication failed or credentials are invalid.",
     RATE_LIMIT_EXCEEDED |-> "Rate limit exceeded. Retry after the suggested Retry-After period.",
     INVALID_TRACKING_NUMBER |-> "Empty or missing trackingNumber for one or more inputs.",
     INVALID_PAYLOAD |-> "Payload is not an object (e.g. number or array where object expected).",
     NO_TRACKING_DATA |-> "Payload could not be normalized to any events or status.",
     PARSE_ERROR |-> "Unhandled parse failure for one item."]

DefaultErrorDescription == "See RapidAPI docs for details."

\* ERROR_CODE_DESCRIPTIONS.get(code, "See RapidAPI docs for details.")
DescriptionOrDefault(code) ==
    IF code \in DOMAIN ERROR_CODE_DESCRIPTIONS
    THEN ERROR_CODE_DESCRIPTIONS[code] ELSE DefaultErrorDescription

ErrorEntry_Upper(code, http_status, description) ==
    [code |-> Upper(code), http_status |-> http_status, description |-> description]

\* line 394 (and 412, 427): one entry of the codes list
ErrorEntry(code, http_status, description) ==
    [code |-> code, http_status |-> http_status, description |-> description]

\* the README writes the em dash; see the note on stand-ins
NoHttpStatus == "="

\* line.strip().startswith("|")
IsTableLine(line) == StartsWith(Strip(line), "|")

\* [c.strip() for c in line.split("|")[1:-1]]
Cells(line) ==
    LET parts == Split(line, "|")
    IN  [i \in 1..(Len(parts) - 2) |-> Strip(parts[i + 1])]

\* lines 361-370: is this line the header row
IsHeaderLine(line) ==
    /\ IsTableLine(line)
    /\ Cells(line) # <<>>
    /\ RemoveChar(Upper(Cells(line)[1]), "*") = "CODE"

\* 0-based index of the header row, -1 for header_idx = None
HeaderIndex(lines) ==
    IF \E i \in 1..Len(lines) : IsHeaderLine(lines[i])
    THEN (CHOOSE i \in 1..Len(lines) :
             /\ IsHeaderLine(lines[i])
             /\ \A j \in 1..(i - 1) : ~IsHeaderLine(lines[j])) - 1
    ELSE -1

DescCol_Lenient(header) == 1

\* lines 374-381: 0-based columns; http_col = -1 when there is no HTTP column
\* and desc_col = -1 when the table is rejected
DescCol(header) == IF Len(header) >= 2 THEN 1 ELSE -1

HttpCol_AlwaysThird(header) == 2

HttpCol(header) == IF Len(header) >= 3 THEN 2 ELSE -1

\* line 393
DescriptionOfRow(cells, desc_col, code) ==
    IF desc_col < Len(cells)
    THEN StripChar(StripChar(Strip(cells[desc_col + 1]), "*"), "~")
    ELSE DescriptionOrDefault(code)

\* lines 386-394 for one table line: the entries it appends (none or one)
RowEntries(line, desc_col, http_col) ==
    LET cells == Cells(line)
    IN  IF Len(cells) <= 0 THEN <<>>
        ELSE LET code == StripChar(StripChar(Strip(cells[1]), "*"), "~")
                 http_status == IF http_col >= 0 /\ http_col < Len(cells)
                                THEN Strip(cells[http_col + 1]) ELSE NoHttpStatus
             IN  IF code = "" \/ StartsWith(code, "-") THEN <<>>
                 ELSE <<ErrorEntry(code,
                          IF http_status # "" THEN http_status ELSE NoHttpStatus,
                          DescriptionOfRow(cells, desc_col, code))>>

RECURSIVE TableRows(_, _, _, _)
TableRows(lines, i, desc_col, http_col) ==
    IF i > Len(lines) \/ ~IsTableLine(lines[i]) THEN <<>>
    ELSE RowEntries(lines[i], desc_col, http_col)
         \o TableRows(lines, i + 1, desc_col, http_col)

_parse_readme_error_table(content) ==
    LET lines == Split(content, "\n")
        header_idx == HeaderIndex(lines)
    IN  IF header_idx = -1 THEN <<>>
        ELSE LET header == Cells(lines[header_idx + 1])
             IN  IF DescCol(header) = -1 THEN <<>>
                 ELSE TableRows(lines, header_idx + 3,
                                DescCol(header), HttpCol(header))

\* the largest number of lines of a README
MaxLines == 3

ReadmeLines ==
    { "intro",
      "| Code | When it happens | HTTP |",
      "| **Code** | Description |",
      "| Code | Description |",
      "| Code |",
      "|---|---|---|",
      "| AUTH_INVALID | bad creds | 401 |",
      "| AUTH_INVALID |  | 401 |",
      "| AUTH_INVALID | bad creds |",
      "| ~INVALID_JSON~ |",
      "| FOO | **why** |",
      "| BAR" }

ReadmeInputs ==
    {Join(ls, "\n") : ls \in UNION {[1..n -> ReadmeLines] : n \in 1..MaxLines}}

(***************************************************************************)
(* json.loads: the JSON texts of the modelled documents with the value the *)
(* decoder gives each; valid = FALSE stands for json.JSONDecodeError.      *)
(***************************************************************************)
JsonTexts ==
    << [text |-> "{\"a\": 1}", valid |-> TRUE,
        value |-> JDict(<<KV("a", JInt("1"))>>)],
       [text |-> "{\"properties\": {\"a\": {\"type\": \"array\"}}}", valid |-> TRUE,
        value |-> JDict(<<KV("properties", JDict(<<KV("a", JDict(<<KV("type", JStr("array"))>>))>>))>>)],
       [text |-> "{\"a\": [{\"b\": 1}]}", valid |-> TRUE,
        value |-> JDict(<<KV("a", JList(<<JDict(<<KV("b", JInt("1"))>>)>>))>>)],
       [text |-> "[1]", valid |-> TRUE,
        value |-> JList(<<JInt("1")>>)],
       [text |-> "5", valid |-> TRUE,
        value |-> JInt("5")],
       [text |-> "{oops", valid |-> FALSE, value |-> JNull],
       [text |-> "{\"error\": \"INVALID_JSON\", \"message\": \"bad\"}", valid |-> TRUE,
        value |-> JDict(<<KV("error", JStr("INVALID_JSON")),
                        KV("message", JStr("bad"))>>)],
       [text |-> "{\"properties\": {}, \"id\": 1}", valid |-> TRUE,
        value |-> JDict(<<KV("properties", JDict(<<>>)), KV("id", JInt("1"))>>)],
       [text |-> "{\"id\": 1, \"name\": \"x\"}", valid |-> TRUE,
        value |-> JDict(<<KV("id", JInt("1")), KV("name", JStr("x"))>>)],
       [text |-> "{\"$schema\": \"s\", \"id\": 1}", valid |-> TRUE,
        value |-> JDict(<<KV("$schema", JStr("s")), KV("id", JInt("1"))>>)],
       [text |-> "{\"code\": \"TOO_BIG\"}", valid |-> TRUE,
        value |-> JDict(<<KV("code", JStr("TOO_BIG"))>>)],
       [text |-> "{\"error\": \"INVALID\\u005fJSON\"}", valid |-> TRUE,
        value |-> JDict(<<KV("error", JStr("INVALID_JSON"))>>)] >>

\* json.loads(raw): [ok, value]; a text of the modelled documents that is
\* not listed (a block cut by a stray fence, an empty block) is not JSON
json_loads(raw) ==
    IF \E i \in 1..Len(JsonTexts) : JsonTexts[i].text = raw
    THEN LET e == JsonTexts[CHOOSE i \in 1..Len(JsonTexts) : JsonTexts[i].text = raw]
         IN  [ok |-> e.valid, value |-> e.value]
    ELSE [ok |-> FALSE, value |-> JNull]

(***************************************************************************)
(* Rapid.md extraction: generate_api_pages.py lines 216-321 and 398-430.   *)
(* The regular expressions are computed on the text, position by position. *)
(* A code fence is written "~~~" (see the note on stand-ins).              *)
(***************************************************************************)
\* 1-based index of the first occurrence of p at or after i, 0 when none
FindFrom(s, p, i) ==
    LET hits == {j \in i..(Len(s) - Len(p) + 1) : StartsWithAt(s, p, j)}
    IN  IF hits = {} THEN 0 ELSE CHOOSE j \in hits : \A h \in hits : j <= h

\* \s* : the index after the whitespace run that starts at i
RECURSIVE SkipWhitespace(_, _)
SkipWhitespace(s, i) ==
    IF i <= Len(s) /\ Char(s, i) \in Whitespace
    THEN SkipWhitespace(s, i + 1) ELSE i

\* the largest index in a..(b - 1) that holds a newline, 0 when none
RECURSIVE LastNewline(_, _, _)
LastNewline(s, a, b) ==
    IF b <= a THEN 0
    ELSE IF Char(s, b - 1) = "\n" THEN b - 1
    ELSE LastNewline(s, a, b - 1)

NoMatch == [found |-> FALSE, text |-> ""]

\* ~~~tag\s*\n(.*?)~~~ matched at q: the fence with its tag, whitespace up
\* to a newline, the group up to the next fence.  s is the text the
\* pattern is matched on (lowered under IGNORECASE), orig the text the
\* group is taken from.
BlockAt(orig, s, tag, q) ==
    LET a == q + 3 + Len(tag)
        nl == LastNewline(s, a, SkipWhitespace(s, a))
        close == IF nl = 0 THEN 0 ELSE FindFrom(s, "~~~", nl + 1)
    IN  IF StartsWithAt(s, "~~~" \o tag, q) /\ nl # 0 /\ close # 0
        THEN [found |-> TRUE, text |-> SubSeq(orig, nl + 1, close - 1)]
        ELSE NoMatch

\* [\s\S]*?~~~tag\s*\n(.*?)~~~ from position i: the first fence that matches
RECURSIVE FirstBlock(_, _, _, _)
FirstBlock(orig, s, tag, i) ==
    LET q == FindFrom(s, "~~~" \o tag, i)
    IN  IF q = 0 THEN NoMatch
        ELSE LET m == BlockAt(orig, s, tag, q)
             IN  IF m.found THEN m ELSE FirstBlock(orig, s, tag, q + 1)

\* a heading alternative of a pattern; parens: it may be followed by
\* (?:\s*\([^)]*\))?
Heading(text, parens) == [text |-> text, parens |-> parens]

\* the index after \s*\([^)]*\) matched at e, 0 when it does not match
ParenEnd(s, e) ==
    LET a == SkipWhitespace(s, e)
    IN  IF StartsWithAt(s, "(", a) /\ FindFrom(s, ")", a + 1) # 0
        THEN FindFrom(s, ")", a + 1) + 1 ELSE 0

\* the leftmost position where one of the alternatives occurs, 0 when none
HeadingStart(s, alts) ==
    LET starts == {FindFrom(s, Lower(alts[k].text), 1) : k \in 1..Len(alts)} \ {0}
    IN  IF starts = {} THEN 0
        ELSE CHOOSE p \in starts : \A r \in starts : p <= r

\* re.search(r"(?:alt1|alt2|...)[\s\S]*?~~~tag\s*\n(.*?)~~~", content,
\*           re.DOTALL | re.IGNORECASE)
SectionBlock(content, alts, tag) ==
    LET s == Lower(content)
        p == HeadingStart(s, alts)
    IN  IF p = 0 THEN NoMatch
        ELSE LET k == CHOOSE k \in 1..Len(alts) :
                        /\ StartsWithAt(s, Lower(alts[k].text), p)
                        /\ \A j \in 1..(k - 1) :
                              ~StartsWithAt(s, Lower(alts[j].text), p)
                 e == p + Len(alts[k].text)
                 e2 == IF alts[k].parens THEN ParenEnd(s, e) ELSE 0
                 m2 == FirstBlock(content, s, tag, e2)
             IN  IF e2 # 0 /\ m2.found THEN m2
                 ELSE FirstBlock(content, s, tag, e)

\* lines 220-224; the fence of this pattern has no tag: after ~~~ comes
\* whitespace up to a newline, so (?!markdown) never decides
ShortDescriptionBlock(content) ==
    SectionBlock(content,
                 <<Heading("Short Description", FALSE),
                   Heading("API Description (Short)", FALSE)>>, "")

\* line 228 (case-sensitive)
LongDescriptionBlock(content) == FirstBlock(content, content, "markdown", 1)

PathChars == UpperLetters \o LowerLetters \o Digits \o "_-"

\* the index after the run of [a-zA-Z0-9_-] that starts at i
RECURSIVE SkipPathChars(_, _)
SkipPathChars(s, i) ==
    IF i <= Len(s) /\ IsCharOf(Char(s, i), PathChars)
    THEN SkipPathChars(s, i + 1) ELSE i

\* Path(?:\*\*)?\s*:\s*~?(/[a-zA-Z0-9_-]+) matched at p: the group, "" when
\* the pattern does not match there
PathGroupAt(s, p) ==
    LET a == p + 4
        b == IF StartsWithAt(s, "**", a) THEN a + 2 ELSE a
        c == SkipWhitespace(s, b)
        d == SkipWhitespace(s, c + 1)
        g == IF StartsWithAt(s, "~", d) THEN d + 1 ELSE d
        h == SkipPathChars(s, g + 1)
    IN  IF /\ StartsWithAt(s, "Path", p)
           /\ StartsWithAt(s, ":", c)
           /\ StartsWithAt(s, "/", g)
           /\ h > g + 1
        THEN SubSeq(s, g, h - 1) ELSE ""

\* line 232: m.group(1) of the leftmost match, "" for m = None
RECURSIVE PathGroup(_, _)
PathGroup(s, p) ==
    LET q == FindFrom(s, "Path", p)
    IN  IF q = 0 THEN ""
        ELSE IF PathGroupAt(s, q) # "" THEN PathGroupAt(s, q)
        ELSE PathGroup(s, q + 1)

\* line 234
PathValue(group) == IF StartsWith(group, "/") THEN group ELSE "/" \o group

\* lines 236-240
ExampleBodyBlock(content) ==
    SectionBlock(content,
                 <<Heading("Example Request Body", FALSE),
                   Heading("Request body = Example", TRUE),
                   Heading("**Example Request Body**", FALSE)>>, "json")

\* lines 250-254
RequestBodyBlock(content) ==
    SectionBlock(content, <<Heading("Request body", FALSE)>>, "json")

\* lines 263-267
RequestSchemaBlock(content) ==
    SectionBlock(content,
                 <<Heading("Request body = JSON Schema", FALSE),
                   Heading("JSON body schema", FALSE)>>, "json")

\* lines 277-281
ResponseSchemaBlock(content) ==
    SectionBlock(content, <<Heading("Response 200 = JSON Schema", FALSE)>>, "json")

\* lines 289-293
ResponseExampleBlock(content) ==
    SectionBlock(content,
                 <<Heading("Response 200 = Example", FALSE),
                   Heading("200 Success Response", TRUE)>>, "json")

\* lines 303-307
ResponseAnyBlock(content) ==
    SectionBlock(content,
                 <<Heading("Response 200", FALSE),
                   Heading("**200 Success Response", FALSE)>>, "json")

\* lines 415-419
ResponseStatusBlock(content, status) ==
    SectionBlock(content, <<Heading("Response " \o status, FALSE)>>, "json")

\* a or b on Python values
PyOr(a, b) == IF Truthy(a) THEN a ELSE b

\* lines 225-226: the entries this step adds to out
ShortDescriptionEntries(content) ==
    LET m == ShortDescriptionBlock(content)
    IN  IF m.found THEN <<KV("short_description", Strip(m.text))>> ELSE <<>>

\* lines 229-230
LongDescriptionEntries(content) ==
    LET m == LongDescriptionBlock(content)
    IN  IF m.found THEN <<KV("long_description", Strip(m.text))>> ELSE <<>>

PathEntries_Always(content) ==
    <<KV("path", PathValue(PathGroup(content, 1)))>>

\* lines 232-234
PathEntries(content) ==
    LET group == PathGroup(content, 1)
    IN  IF group # "" THEN <<KV("path", PathValue(group))>> ELSE <<>>

\* lines 241-247 and 255-261: raw when the block is found and is JSON
BodyOf(block) ==
    IF block.found /\ json_loads(Strip(block.text)).ok
    THEN <<KV("body", Strip(block.text))>> ELSE <<>>

\* lines 236-261
BodyEntries(content) ==
    LET first == BodyOf(ExampleBodyBlock(content))
    IN  IF first # <<>> THEN first ELSE BodyOf(RequestBodyBlock(content))

\* lines 269-273 for the parsed text: [ok, entries]; ok = FALSE when
\* _json_schema_to_rows raises
RequestSchemaRows(schema) ==
    IF ~schema.ok THEN [ok |-> TRUE, entries |-> <<>>]
    ELSE LET r == _json_schema_to_rows(schema.value, TRUE)
         IN  IF ~r.ok THEN [ok |-> FALSE, entries |-> <<>>]
             ELSE [ok |-> TRUE, entries |-> <<KV("request_schema", r.rows)>>]

\* lines 263-273
RequestSchemaEntries(content) ==
    LET m == RequestSchemaBlock(content)
    IN  IF ~m.found THEN [ok |-> TRUE, entries |-> <<>>]
        ELSE RequestSchemaRows(json_loads(Strip(m.text)))

\* lines 283-288 for the parsed text: [ok, value]; .get on a value that is
\* no dict raises
ResponseSchemaOf(v) ==
    IF ~v.ok THEN [ok |-> TRUE, value |-> JNull]
    ELSE IF v.value.k # "dict" THEN [ok |-> FALSE, value |-> JNull]
    ELSE IF ~Truthy(Get(v.value, "properties")) /\ ~Has(v.value, "$schema")
    THEN [ok |-> TRUE, value |-> JNull]
    ELSE [ok |-> TRUE, value |-> v.value]

\* lines 277-288
LabelledResponseSchema(content) ==
    LET m == ResponseSchemaBlock(content)
    IN  IF ~m.found THEN [ok |-> TRUE, value |-> JNull]
        ELSE ResponseSchemaOf(json_loads(Strip(m.text)))

\* lines 295-300 and 309-311 for the parsed text: the dict, JNull otherwise
DictOrNone(v) == IF v.ok /\ v.value.k = "dict" THEN v.value ELSE JNull

\* lines 289-300
LabelledResponseExample(content) ==
    LET m == ResponseExampleBlock(content)
    IN  IF m.found THEN DictOrNone(json_loads(Strip(m.text))) ELSE JNull

\* lines 303-311: the blob of the fallback, JNull when there is none
FallbackBlob(content) ==
    LET m == ResponseAnyBlock(content)
    IN  IF m.found THEN DictOrNone(json_loads(Strip(m.text))) ELSE JNull

IsSchemaBlob(blob) ==
    Truthy(Get(blob, "properties")) \/ Truthy(Get(blob, "$schema"))

\* lines 301-317 for the labelled schema s, the labelled example e and the
\* fallback blob
ResponseInputsOf(s, e, blob) ==
    IF ~s.ok THEN [ok |-> FALSE, schema |-> JNull, example |-> JNull]
    ELSE IF Truthy(s.value) \/ Truthy(e) \/ blob.k # "dict"
    THEN [ok |-> TRUE, schema |-> s.value, example |-> e]
    ELSE IF IsSchemaBlob(blob)
    THEN [ok |-> TRUE, schema |-> blob, example |-> e]
    ELSE [ok |-> TRUE, schema |-> s.value, example |-> blob]

\* lines 275-317: the schema and the example handed to the merge
ResponseInputs(content) ==
    ResponseInputsOf(LabelledResponseSchema(content),
                     LabelledResponseExample(content), FallbackBlob(content))

CodeChars == UpperLetters \o Digits \o "_"

RECURSIVE SkipCodeChars(_, _)
SkipCodeChars(s, i) ==
    IF i <= Len(s) /\ IsCharOf(Char(s, i), CodeChars)
    THEN SkipCodeChars(s, i + 1) ELSE i

\* line 409: re.finditer(r"~([A-Z][A-Z0-9_]+)~", raw) from position i
RECURSIVE InlineCodes(_, _)
InlineCodes(raw, i) ==
    IF i + 3 > Len(raw) THEN <<>>
    ELSE LET e == SkipCodeChars(raw, i + 2)
         IN  IF /\ StartsWithAt(raw, "~", i)
                /\ IsCharOf(Char(raw, i + 1), UpperLetters)
                /\ e > i + 2
                /\ StartsWithAt(raw, "~", e)
             THEN <<SubSeq(raw, i + 1, e - 1)>> \o InlineCodes(raw, e + 1)
             ELSE InlineCodes(raw, i + 1)

\* the index of the next newline at or after i, Len(s) + 1 when none
LineEnd(s, i) == IF FindFrom(s, "\n", i) = 0 THEN Len(s) + 1 ELSE FindFrom(s, "\n", i)

\* lines 402-406 matched at p: [found, text] with text = m.group(1).  When
\* only whitespace follows the colon up to the end of the text, the group
\* can hold whitespace only and no later match exists: no codes either way.
ErrorCodesLineAt(content, s, p) ==
    LET a == p + Len("error codes")
        b == IF StartsWithAt(s, "**", a) THEN a + 2 ELSE a
        c == SkipWhitespace(s, b)
        d == SkipWhitespace(s, c + 1)
    IN  IF StartsWithAt(s, "error codes", p) /\ StartsWithAt(s, ":", c)
           /\ d <= Len(s)
        THEN [found |-> TRUE, text |-> SubSeq(content, d, LineEnd(s, d) - 1)]
        ELSE NoMatch

RECURSIVE ErrorCodesLine(_, _, _)
ErrorCodesLine(content, s, p) ==
    LET q == FindFrom(s, "error codes", p)
    IN  IF q = 0 THEN NoMatch
        ELSE IF ErrorCodesLineAt(content, s, q).found
        THEN ErrorCodesLineAt(content, s, q)
        ELSE ErrorCodesLine(content, s, q + 1)

InlineEntriesOf_NoLookup(found) ==
    [i \in 1..Len(found) |->
        ErrorEntry(found[i], "4xx/5xx", DefaultErrorDescription)]

\* lines 410-412 for the codes found
InlineEntriesOf(found) ==
    [i \in 1..Len(found) |->
        ErrorEntry(found[i], "4xx/5xx", DescriptionOrDefault(found[i]))]

\* lines 407-412
InlineEntries(content) ==
    LET m == ErrorCodesLine(content, Lower(content), 1)
    IN  InlineEntriesOf(IF m.found THEN InlineCodes(m.text, 1) ELSE <<>>)

StatusEntry_NoSeenTest(obj, status, codes) ==
    LET err == PyOr(Get(obj.value, "error"), Get(obj.value, "code"))
        msg == PyOr(Get(obj.value, "message"), GetOr(obj.value, "details", JStr("")))
        desc == IF err.s \in DOMAIN ERROR_CODE_DESCRIPTIONS
                THEN ERROR_CODE_DESCRIPTIONS[err.s]
                ELSE IF msg.k = "str" THEN msg.s ELSE "See RapidAPI docs."
    IN  IF ~obj.ok THEN [ok |-> TRUE, codes |-> codes]
        ELSE IF obj.value.k # "dict" THEN [ok |-> FALSE, codes |-> codes]
        ELSE IF Truthy(err) /\ err.k = "str"
        THEN [ok |-> TRUE, codes |-> Append(codes, ErrorEntry(err.s, status, desc))]
        ELSE [ok |-> TRUE, codes |-> codes]

\* lines 421-427 for the parsed text: [ok, codes]; ok = FALSE when obj.get
\* raises
StatusEntry(obj, status, codes) ==
    LET err == PyOr(Get(obj.value, "error"), Get(obj.value, "code"))
        msg == PyOr(Get(obj.value, "message"), GetOr(obj.value, "details", JStr("")))
        desc == IF err.s \in DOMAIN ERROR_CODE_DESCRIPTIONS
                THEN ERROR_CODE_DESCRIPTIONS[err.s]
                ELSE IF msg.k = "str" THEN msg.s ELSE "See RapidAPI docs."
    IN  IF ~obj.ok THEN [ok |-> TRUE, codes |-> codes]
        ELSE IF obj.value.k # "dict" THEN [ok |-> FALSE, codes |-> codes]
        ELSE IF Truthy(err) /\ err.k = "str"
                /\ \A i \in 1..Len(codes) : codes[i].code # err.s
        THEN [ok |-> TRUE, codes |-> Append(codes, ErrorEntry(err.s, status, desc))]
        ELSE [ok |-> TRUE, codes |-> codes]

\* lines 415-429 for one status
StatusEntries(content, status, codes) ==
    LET m == ResponseStatusBlock(content, status)
    IN  IF ~m.found THEN [ok |-> TRUE, codes |-> codes]
        ELSE StatusEntry(json_loads(Strip(m.text)), status, codes)

ErrorStatuses == <<"400", "413", "500">>

\* line 414: the loop over the statuses from the k-th on; acc = [ok, codes]
RECURSIVE StatusLoop(_, _, _)
StatusLoop(content, k, acc) ==
    IF k > Len(ErrorStatuses) \/ ~acc.ok THEN acc
    ELSE StatusLoop(content, k + 1,
                    StatusEntries(content, ErrorStatuses[k], acc.codes))

\* [ok, codes]
_parse_error_codes(content) ==
    StatusLoop(content, 1, [ok |-> TRUE, codes |-> InlineEntries(content)])

\* the largest number of sections of a Rapid.md document
MaxSections == 2

\* heading \n ~~~json \n text \n ~~~
JsonSection(heading, text) == heading \o "\n~~~json\n" \o text \o "\n~~~"

JsonSections ==
    {JsonSection("### Example Request Body", t) :
        t \in {"{\"a\": 1}", "{oops"}}
    \cup {JsonSection("## Request body = JSON Schema", t) :
        t \in {"{\"properties\": {\"a\": {\"type\": \"array\"}}}", "[1]"}}
    \cup {JsonSection("## Response 200 = JSON Schema", t) :
        t \in {"{\"properties\": {\"a\": {\"type\": \"array\"}}}", "{\"a\": 1}",
               "[1]"}}
    \cup {JsonSection("## Response 200 = Example", "{\"a\": [{\"b\": 1}]}")}
    \cup {JsonSection("## Response 200", t) :
        t \in {"{\"properties\": {\"a\": {\"type\": \"array\"}}}",
               "{\"properties\": {}, \"id\": 1}", "{\"id\": 1, \"name\": \"x\"}",
               "{\"$schema\": \"s\", \"id\": 1}"}}
    \cup {JsonSection("## Response 400", t) :
        t \in {"{\"error\": \"INVALID_JSON\", \"message\": \"bad\"}", "[1]"}}
    \cup {JsonSection("## Response 413", "{\"code\": \"TOO_BIG\"}"),
          JsonSection("## Response 500", "{\"error\": \"INVALID_JSON\", \"message\": \"bad\"}")}

TextSections ==
    { "## Short Description\n~~~\nFast and small\n~~~",
      "## Short Description\n~~~markdown\n# Title\n~~~\nBetween\n~~~\nFast and small\n~~~",
      "## API Description (Short)\n~~~json\n{\"a\": 1}\n~~~\n~~~\nFast and small\n~~~",
      "~~~markdown\n# Overview\n~~~",
      "Path: normalize",
      "**Path**: ~/normalize~",
      "**Error codes:** ~AUTH_INVALID~, ~FOO_BAR~",
      "**Error codes:** ~MISSING_PAYLOAD~, ~INVALID_JSON~",
      "Error codes: ~lower~, ~E2~",
      "Notes" }

RapidDocuments ==
    {Join(ss, "\n\n") :
        ss \in UNION {[1..n -> JsonSections \cup TextSections] : n \in 0..MaxSections}}

(***************************************************************************)
(* HTML patching: add_nav_cta_og.py and enhance_api_pages.py.              *)
(* The page is its text.  Both scripts loop over their table of pages;     *)
(* the model follows one page, "pdf-compression", listed in both tables.   *)
(* Long literal blocks are shortened where marked "shortened"; every text  *)
(* a guard or a pattern of the scripts looks for is kept.  The arrow       *)
(* (U+2192) is written "->" and the typographic apostrophe (U+2019) "^".   *)
(***************************************************************************)
\* s with s[p .. q - 1] replaced by new
ReplaceAt(s, p, q, new) == SubSeq(s, 1, p - 1) \o new \o SubSeq(s, q, Len(s))

\* s.replace(old, new, 1), and re.sub of a literal pattern with count = 1
ReplaceFirst(s, old, new) ==
    LET p == FindFrom(s, old, 1)
    IN  IF p = 0 THEN s ELSE ReplaceAt(s, p, p + Len(old), new)

\* the smallest member of a set of positions, 0 for the empty set
First(hits) == IF hits = {} THEN 0 ELSE CHOOSE p \in hits : \A h \in hits : p <= h

\* [^c]* : the index of the first c at or after i, Len(s) + 1 when none
SkipUntil(s, i, c) == IF FindFrom(s, c, i) = 0 THEN Len(s) + 1 ELSE FindFrom(s, c, i)

\* the number of occurrences of p in s
Count(s, p) == Cardinality({j \in 1..(Len(s) - Len(p) + 1) : StartsWithAt(s, p, j)})

SLUG == "pdf-compression"
BASE == "https://precisionsolutionstech-netizen.github.io/api-catalog"
PAGE_URL == BASE \o "/apis/" \o SLUG \o ".html"

\* add_nav_cta_og.py line 18: PAGES["pdf-compression"]
PAGES == [breadcrumb |-> "PDF Compression",
          rapid_suffix |-> "pdf-compression-api1",
          twitter |-> "Reduce PDF size. 80MB max."]

\* enhance_api_pages.py lines 94-102: CONFIG["pdf-compression"] (the faqs
\* and the related list shortened to their first entry)
CONFIG == [breadcrumb_name |-> "PDF Compression",
           rapid_suffix |-> "pdf-compression-api1",
           twitter_short |-> "Reduce PDF size. Speed, lossless, or max. 80MB max.",
           faq_q |-> "Does it store files?",
           faq_a |-> "No. Fully stateless.",
           related_href |-> "pdf-table-extraction.html",
           related_name |-> "PDF Table Extraction",
           related_desc |-> "Extract tables from PDFs",
           who_use |-> "Developers and apps optimizing PDFs for email, storage, or web.",
           also_known_as |-> "PDF compressor API, PDF shrinker, PDF optimizer."]

RAPID_URL == "https://rapidapi.com/precisionsolutionstech/api/" \o PAGES.rapid_suffix

GlobalNavOpen == "<nav class=\"global-nav\""
BreadcrumbOpen == "<nav aria-label=\"Breadcrumb\">"
LeadOpen == "<p class=\"lead\">"

\* the links of the global nav (shortened to the first and the last)
NavLinks ==
    "<a href=\"../index.html\">Home</a>"
    \o "<a href=\"../blog/what-is-data-normalization.html\">Blog</a>"

\* add_nav_cta_og.py line 27, and the replacement of enhance_api_pages.py
\* line 256 up to the breadcrumb it re-emits
NAV_HTML == GlobalNavOpen \o " aria-label=\"Main\">" \o NavLinks \o "</nav>\n        "

\* add_nav_cta_og.py lines 54-55: the breadcrumb the nav step looks for
BreadcrumbNav(breadcrumb) ==
    BreadcrumbOpen \o "<a href=\"../index.html\">API Catalog</a> -> "
    \o breadcrumb \o "</nav>"

\* add_nav_cta_og.py line 65 and enhance_api_pages.py line 257
CtaLink ==
    "<p><a href=\"" \o RAPID_URL
    \o "\" target=\"_blank\" rel=\"noopener\" class=\"cta-primary\">Try on RapidAPI</a></p>"

\* the seven meta lines of add_nav_cta_og.py lines 29-35 and of
\* enhance_api_pages.py lines 219-225, joined by newlines
OgTwitterLines(title, twitter) ==
    "    <meta property=\"og:url\" content=\"" \o PAGE_URL \o "\">\n"
    \o "    <meta property=\"og:image\" content=\"" \o BASE \o "/og-default.png\">\n"
    \o "    <meta property=\"og:type\" content=\"article\">\n"
    \o "    <meta name=\"twitter:card\" content=\"summary_large_image\">\n"
    \o "    <meta name=\"twitter:title\" content=\"" \o title \o "\">\n"
    \o "    <meta name=\"twitter:description\" content=\"" \o twitter \o "\">\n"
    \o "    <meta name=\"twitter:image\" content=\"" \o BASE \o "/og-default.png\">"

\* add_nav_cta_og.py lines 29-36 after .format
OG_TWITTER(title, twitter) == OgTwitterLines(title, twitter) \o "\n"

\* (<h1>[^<]+</h1>)\s*<p class="lead"> matched at p: [found, g1, end) with
\* g1 the index after group 1 and end the index after the match
H1LeadAt(s, p) ==
    LET a == p + Len("<h1>")
        b == SkipUntil(s, a, "<")
        c == SkipWhitespace(s, b + Len("</h1>"))
    IN  IF /\ StartsWithAt(s, "<h1>", p)
           /\ b > a
           /\ StartsWithAt(s, "</h1>", b)
           /\ StartsWithAt(s, LeadOpen, c)
        THEN [found |-> TRUE, start |-> p, g1 |-> b + Len("</h1>"),
              end |-> c + Len(LeadOpen)]
        ELSE [found |-> FALSE, start |-> 0, g1 |-> 0, end |-> 0]

\* re.search of that pattern: the leftmost match
H1Lead(s) ==
    H1LeadAt(s, First({p \in 1..Len(s) : H1LeadAt(s, p).found}))

\* re.sub(pattern, r'\1\n                ' + cta + '<p class="lead">', html, 1)
\* with cta = CtaLink + '\n                '
InsertCta(html) ==
    LET m == H1Lead(html)
    IN  IF ~m.found THEN html
        ELSE ReplaceAt(html, m.g1, m.end,
                 "\n                " \o CtaLink \o "\n                " \o LeadOpen)

(***************************************************************************)
(* add_nav_cta_og.py: the three patch steps of main, html -> [html, hit]   *)
(* where hit tells that the step set changed = True                        *)
(***************************************************************************)
Patched(html, hit) == [html |-> html, hit |-> hit]

\* line 47
AddNavTitle == PAGES.breadcrumb \o (IF ~Contains(PAGES.breadcrumb, "API") THEN " API" ELSE "")

\* lines 51-58
AddGlobalNav(html) ==
    IF \/ ~Contains(html, GlobalNavOpen)
       \/ Find(html, GlobalNavOpen) > Find(html, BreadcrumbOpen)
    THEN Patched(ReplaceFirst(html, BreadcrumbNav(PAGES.breadcrumb),
                              NAV_HTML \o BreadcrumbNav(PAGES.breadcrumb)), TRUE)
    ELSE Patched(html, FALSE)

\* lines 61-67
AddCta(html) ==
    IF /\ \/ ~Contains(html, "cta-primary")
          \/ Find(html, "cta-primary") > Find(html, LeadOpen)
       /\ H1Lead(html).found
       /\ ~Contains(SubSeq(html, 1, Find(html, LeadOpen)), "Try on RapidAPI")
    THEN Patched(InsertCta(html), TRUE)
    ELSE Patched(html, FALSE)

CanonicalOpen == "<link rel=\"canonical\" href=\""
OgTitleOpen == "<meta property=\"og:title\""

\* (<link rel="canonical" href="[^"]+">)\s*\n(\s*<meta property="og:title")
\* matched at p: [found, g1, g2) with g1 the index after group 1 and g2 the
\* index where group 2 starts (after the last newline of the whitespace)
CanonicalThenOgTitleAt(s, p) ==
    LET a == p + Len(CanonicalOpen)
        b == SkipUntil(s, a, "\"")
        c == b + Len("\">")
        e == SkipWhitespace(s, c)
        nl == LastNewline(s, c, e)
    IN  IF /\ StartsWithAt(s, CanonicalOpen, p)
           /\ b > a
           /\ StartsWithAt(s, "\">", b)
           /\ nl # 0
           /\ StartsWithAt(s, OgTitleOpen, e)
        THEN [found |-> TRUE, g1 |-> c, g2 |-> nl + 1]
        ELSE [found |-> FALSE, g1 |-> 0, g2 |-> 0]

\* lines 72-77: re.sub(..., r'\1\n' + insert + r'\2', html, 1)
InsertOgTwitter(html, insert) ==
    LET m == CanonicalThenOgTitleAt(html,
                 First({p \in 1..Len(html) : CanonicalThenOgTitleAt(html, p).found}))
    IN  IF ~m.found THEN html
        ELSE ReplaceAt(html, m.g1, m.g2, "\n" \o insert)

\* lines 70-78
AddOgTwitter(html) ==
    IF ~Contains(html, "og:image\" content=\"")
    THEN Patched(InsertOgTwitter(html, OG_TWITTER(AddNavTitle, PAGES.twitter)), TRUE)
    ELSE Patched(html, FALSE)

(***************************************************************************)
(* enhance_api_pages.py: the steps of main, html -> html                   *)
(***************************************************************************)
\* line 203
AlreadyEnhanced(html) ==
    Contains(html, "og:image\" content=\"" \o BASE \o "/og-default.png\"")

\* <title>([^|]+)\s*\| matched at p: the index of the bar, 0 for no match
TitleBarAt(s, p) ==
    LET a == p + Len("<title>")
        b == SkipUntil(s, a, "|")
    IN  IF StartsWithAt(s, "<title>", p) /\ b > a /\ b <= Len(s) THEN b ELSE 0

\* lines 208-209
EnhanceTitle(html) ==
    LET p == First({q \in 1..Len(html) : TitleBarAt(html, q) # 0})
    IN  IF p = 0 THEN CONFIG.breadcrumb_name \o " API"
        ELSE Strip(SubSeq(html, p + Len("<title>"), TitleBarAt(html, p) - 1))

LdJsonOpen == "<script type=\"application/ld+json\">"

\* <script type="application/ld\+json">\s*\{[^}]+\}\s*</script> matched at p
FlatLdJsonAt(s, p) ==
    LET a == SkipWhitespace(s, p + Len(LdJsonOpen))
        b == SkipUntil(s, a + 1, "}")
        c == SkipWhitespace(s, b + 1)
    IN  /\ StartsWithAt(s, LdJsonOpen, p)
        /\ StartsWithAt(s, "{", a)
        /\ b > a + 1
        /\ StartsWithAt(s, "}", b)
        /\ StartsWithAt(s, "</script>", c)

\* lines 214-215: old_script is not None
HasFlatLdJson(html) == \E p \in 1..Len(html) : FlatLdJsonAt(html, p)

\* (<link rel="canonical" href="[^"]+"/>)\s* matched at p: [found, g1, end)
SelfClosedCanonicalAt(s, p) ==
    LET a == p + Len(CanonicalOpen)
        b == SkipUntil(s, a, "\"")
        c == b + Len("\"/>")
    IN  IF StartsWithAt(s, CanonicalOpen, p) /\ b > a /\ StartsWithAt(s, "\"/>", b)
        THEN [found |-> TRUE, g1 |-> c, end |-> SkipWhitespace(s, c)]
        ELSE [found |-> FALSE, g1 |-> 0, end |-> 0]

\* lines 226-227
EnhanceOgTwitter(html) ==
    LET m == SelfClosedCanonicalAt(html,
                 First({p \in 1..Len(html) : SelfClosedCanonicalAt(html, p).found}))
    IN  IF Contains(html, "og:image") \/ ~m.found THEN html
        ELSE ReplaceAt(html, m.g1, m.end,
                 "\n" \o OgTwitterLines(EnhanceTitle(html), CONFIG.twitter_short)
                 \o "\n    ")

\* line 230
EnhanceTechArticle(html) ==
    ReplaceFirst(html, "\"@type\":\"WebPage\"", "\"@type\":\"TechArticle\"")

AuthorEntry == "\"author\":{\"@type\":\"Organization\",\"name\":\"Precision Solutions Tech\"}"

\* line 231
EnhanceAuthor(html) ==
    ReplaceFirst(html, "\",\"url\":\"", "\"," \o AuthorEntry \o ",\"url\":\"")

\* "name":"([^"]+)" matched at p: the index of the closing quote, 0 for none
NameEntryAt(s, p) ==
    LET a == p + Len("\"name\":\"")
        b == SkipUntil(s, a, "\"")
    IN  IF StartsWithAt(s, "\"name\":\"", p) /\ b > a /\ b <= Len(s) THEN b ELSE 0

\* lines 232-233
EnhanceHeadline(html) ==
    LET p == First({q \in 1..Len(html) : NameEntryAt(html, q) # 0})
        name == SubSeq(html, p + Len("\"name\":\""), NameEntryAt(html, p) - 1)
    IN  IF Contains(html, "\"headline\"") \/ p = 0 THEN html
        ELSE ReplaceAt(html, p, NameEntryAt(html, p) + 1,
                 "\"headline\":\"" \o name \o "\",\"name\":\"" \o name \o "\"")

\* lines 237-240 for the one question of CONFIG
FaqEntities ==
    "{\"@type\":\"Question\",\"name\":\"" \o CONFIG.faq_q
    \o "\",\"acceptedAnswer\":{\"@type\":\"Answer\",\"text\":\"" \o CONFIG.faq_a \o "\"}}"

\* lines 241-247
BreadcrumbLd ==
    "    " \o LdJsonOpen \o "\n"
    \o "{\"@context\":\"https://schema.org\",\"@type\":\"BreadcrumbList\",\"itemListElement\":["
    \o "{\"@type\":\"ListItem\",\"position\":1,\"name\":\"API Catalog\",\"item\":\""
    \o BASE \o "/\"},"
    \o "{\"@type\":\"ListItem\",\"position\":2,\"name\":\"" \o CONFIG.breadcrumb_name
    \o "\",\"item\":\"" \o PAGE_URL \o "\"}]}\n"
    \o "    </script>\n"
    \o "    " \o LdJsonOpen \o "\n"
    \o "{\"@context\":\"https://schema.org\",\"@type\":\"FAQPage\",\"mainEntity\":["
    \o FaqEntities \o "]}\n"
    \o "    </script>\n"

\* lines 236-248
EnhanceBreadcrumbLd(html) ==
    IF Contains(html, "BreadcrumbList") THEN html
    ELSE ReplaceFirst(html, "</script>\n    <style>",
                      "</script>\n" \o BreadcrumbLd \o "    <style>")

\* lines 219-248: step 1
EnhanceMeta(html) ==
    EnhanceBreadcrumbLd(EnhanceHeadline(EnhanceAuthor(EnhanceTechArticle(
        EnhanceOgTwitter(html)))))

\* lines 160-178 (shortened to the rules of the CTA and of the global nav)
EXTRA_CSS ==
    "\n        .cta-primary { display: inline-block; }\n"
    \o "        .global-nav { margin-bottom: 20px; }\n"

PostmanHoverRule == ".postman-btn:hover { background: var(--border); }"

\* lines 251-252: step 2
EnhanceCss(html) ==
    LET p == FindFrom(html, PostmanHoverRule, 1)
        e == SkipWhitespace(html, p + Len(PostmanHoverRule))
    IN  IF Contains(html, "global-nav") \/ p = 0 THEN html
        ELSE ReplaceAt(html, e, e, EXTRA_CSS \o "        ")

\* lines 255-257: step 3
EnhanceNavCta(html) ==
    IF ~Contains(html, "global-nav") \/ ~Contains(html, "cta-primary")
    THEN InsertCta(ReplaceFirst(html, BreadcrumbOpen, NAV_HTML \o BreadcrumbOpen))
    ELSE html

ExpectOpen == "<section><h2 id=\"expect\">What to expect</h2>"

\* <section><h2 id="expect">What to expect</h2>[^<]+</section> matched at p:
\* the index after the match, 0 for no match
ExpectSectionAt(s, p) ==
    LET a == p + Len(ExpectOpen)
        b == SkipUntil(s, a, "<")
    IN  IF StartsWithAt(s, ExpectOpen, p) /\ b > a /\ StartsWithAt(s, "</section>", b)
        THEN b + Len("</section>") ELSE 0

\* lines 262-268 for the one related page of CONFIG
RelatedBlock ==
    "\n            <section><h2 id=\"related\">Related APIs</h2>\n"
    \o "                <ul class=\"related-apis\">\n"
    \o "                    <li><a href=\"" \o CONFIG.related_href \o "\">"
    \o CONFIG.related_name \o "</a> - " \o CONFIG.related_desc \o "</li>\n"
    \o "                </ul>\n"
    \o "            </section>"

\* lines 260-269: step 4
EnhanceRelated(html) ==
    LET p == First({q \in 1..Len(html) : ExpectSectionAt(html, q) # 0})
    IN  IF p = 0 \/ Contains(html, "id=\"related\"") THEN html
        ELSE ReplaceAt(html, ExpectSectionAt(html, p), ExpectSectionAt(html, p),
                       RelatedBlock)

AboutOpen == "<section><h2 id=\"about\">About this API</h2>"
LongDescOpen == "<div class=\"long-desc\">"

\* line 272: about_section is not None
HasAboutSection(html) ==
    \E p \in 1..Len(html) :
        /\ StartsWithAt(html, AboutOpen, p)
        /\ StartsWithAt(html, LongDescOpen, SkipWhitespace(html, p + Len(AboutOpen)))

\* lines 274-279
WhoBlock ==
    "\n                <h3 id=\"who-should-use\">Who Should Use This API</h3>\n"
    \o "                <p>" \o CONFIG.who_use \o "</p>\n"
    \o "                <h3 id=\"also-known-as\">Also Known As</h3>\n"
    \o "                <p>" \o CONFIG.also_known_as \o "</p>\n"
    \o LongDescOpen

\* lines 272-280: step 5
EnhanceWhoShouldUse(html) ==
    IF HasAboutSection(html) /\ ~Contains(html, "id=\"who-should-use\"")
    THEN ReplaceFirst(html, AboutOpen \o "\n" \o LongDescOpen,
                      AboutOpen \o "\n" \o WhoBlock)
    ELSE html

\* intro\s*<ul>[\s\S]*?</ul>\s* matched at p: the index after the match,
\* 0 for no match
AlsoUsefulListAt(s, intro, p) ==
    LET a == SkipWhitespace(s, p + Len(intro))
        c == FindFrom(s, "</ul>", a + Len("<ul>"))
    IN  IF StartsWithAt(s, intro, p) /\ StartsWithAt(s, "<ul>", a) /\ c # 0
        THEN SkipWhitespace(s, c + Len("</ul>")) ELSE 0

\* re.sub(intro + r'\s*<ul>[\s\S]*?</ul>\s*', '\n', html, count=1)
RemoveAlsoUsefulList(html, intro) ==
    LET p == First({q \in 1..Len(html) : AlsoUsefulListAt(html, intro, q) # 0})
    IN  IF p = 0 THEN html
        ELSE ReplaceAt(html, p, AlsoUsefulListAt(html, intro, p), "\n")

\* lines 283-284: step 6
EnhanceRemoveAlsoUseful(html) ==
    RemoveAlsoUsefulList(
        RemoveAlsoUsefulList(html, "<p>Also useful if you're looking for:</p>"),
        "<p>Also useful if you^re looking for:</p>")

FaqHeading == "<h2 id=\"faq\">Frequently Asked Questions</h2>"

\* lines 288-298 for the one question of CONFIG
FaqBlock ==
    "\n            <section>" \o FaqHeading \o "\n"
    \o "                <ul class=\"faq-list\">\n"
    \o "                    <li>\n"
    \o "                        <button type=\"button\" class=\"faq-q\" aria-expanded=\"false\" aria-controls=\"faq-a1\" id=\"faq-q1\">"
    \o CONFIG.faq_q \o "</button>\n"
    \o "                        <div id=\"faq-a1\" class=\"faq-a\" role=\"region\" aria-labelledby=\"faq-q1\">"
    \o CONFIG.faq_a \o "</div>\n"
    \o "                    </li>\n"
    \o "                </ul>\n"
    \o "            </section>\n"
    \o "            <div class=\"browse-all\"><a href=\"../index.html\">Browse all APIs in the catalog -></a></div>"

\* </div></section>\s*</article>\s*<footer> matched at p: the index after
\* the match, 0 for no match
ArticleEndAt(s, p) ==
    LET a == SkipWhitespace(s, p + Len("</div></section>"))
        b == SkipWhitespace(s, a + Len("</article>"))
    IN  IF /\ StartsWithAt(s, "</div></section>", p)
           /\ StartsWithAt(s, "</article>", a)
           /\ StartsWithAt(s, "<footer>", b)
        THEN b + Len("<footer>") ELSE 0

\* lines 287-299: step 7
EnhanceFaq(html) ==
    LET p == First({q \in 1..Len(html) : ArticleEndAt(html, q) # 0})
    IN  IF Contains(html, FaqHeading) \/ p = 0 THEN html
        ELSE ReplaceAt(html, p, ArticleEndAt(html, p),
                 "</div></section>" \o FaqBlock
                 \o "\n        </article>\n        <footer>")

FaqScriptMarker == "document.querySelectorAll('.faq-q')"

\* lines 180-184 (the body of the handler shortened)
FAQ_SCRIPT ==
    "\n    " \o FaqScriptMarker \o ".forEach(function(btn){\n"
    \o "        btn.addEventListener('click',function(){});\n"
    \o "    });\n"

Quotes == {"'", "\""}

\* (var toggleErrors=document\.getElementById\(['"]toggle-errors['"]\)[^;]+;)
\* \s*(document\.querySelectorAll\(['"]\.lang-tabs) matched at p:
\* [found, g1, g2) with g1 the index after group 1, g2 the start of group 2
ToggleErrorsAt(s, p) ==
    LET a == p + Len("var toggleErrors=document.getElementById(")
        b == a + 1 + Len("toggle-errors")
        c == b + 2
        d == SkipUntil(s, c, ";")
        e == SkipWhitespace(s, d + 1)
        f == e + Len("document.querySelectorAll(")
    IN  IF /\ StartsWithAt(s, "var toggleErrors=document.getElementById(", p)
           /\ a <= Len(s) /\ Char(s, a) \in Quotes
           /\ StartsWithAt(s, "toggle-errors", a + 1)
           /\ b <= Len(s) /\ Char(s, b) \in Quotes
           /\ StartsWithAt(s, ")", b + 1)
           /\ d > c /\ d <= Len(s)
           /\ StartsWithAt(s, "document.querySelectorAll(", e)
           /\ f <= Len(s) /\ Char(s, f) \in Quotes
           /\ StartsWithAt(s, ".lang-tabs", f + 1)
        THEN [found |-> TRUE, g1 |-> d + 1, g2 |-> e]
        ELSE [found |-> FALSE, g1 |-> 0, g2 |-> 0]

\* (document\.getElementById\(['"]postman-download['"]\)\.addEventListener)
PostmanDownloadAt(s, p) ==
    LET a == p + Len("document.getElementById(")
        b == a + 1 + Len("postman-download")
    IN  /\ StartsWithAt(s, "document.getElementById(", p)
        /\ a <= Len(s) /\ Char(s, a) \in Quotes
        /\ StartsWithAt(s, "postman-download", a + 1)
        /\ b <= Len(s) /\ Char(s, b) \in Quotes
        /\ StartsWithAt(s, ").addEventListener", b + 1)

\* line 303
FaqScriptAfterToggle(html) ==
    LET m == ToggleErrorsAt(html,
                 First({p \in 1..Len(html) : ToggleErrorsAt(html, p).found}))
    IN  IF ~m.found THEN html
        ELSE ReplaceAt(html, m.g1, m.g2, FAQ_SCRIPT \o "    ")

\* line 305
FaqScriptBeforePostman(html) ==
    LET p == First({q \in 1..Len(html) : PostmanDownloadAt(html, q)})
    IN  IF p = 0 THEN html ELSE ReplaceAt(html, p, p, FAQ_SCRIPT \o "    ")

\* lines 302-305: step 8
EnhanceFaqScript(html) ==
    IF Contains(html, FaqScriptMarker) THEN html
    ELSE IF Contains(FaqScriptAfterToggle(html), FaqScriptMarker)
    THEN FaqScriptAfterToggle(html)
    ELSE FaqScriptBeforePostman(FaqScriptAfterToggle(html))

(***************************************************************************)
(* The pages the patch scripts are run on: a head and a body in the layout *)
(* of generate_api_pages.template, each part in several variants.          *)
(***************************************************************************)
\* the largest number of successive runs of a script on the page
MaxRuns == 2

CanonicalVariants ==
    { "    " \o CanonicalOpen \o PAGE_URL \o "\">\n",
      "    " \o CanonicalOpen \o PAGE_URL \o "\"/>\n" }

LdJsonVariants ==
    { "",
      "    " \o LdJsonOpen \o "\n{\"@context\":\"https://schema.org\",\"@type\":\"WebPage\","
        \o "\"name\":\"PDF Compression API\",\"description\":\"Compress PDFs\",\"url\":\""
        \o PAGE_URL \o "\"}\n    </script>\n",
      "    " \o LdJsonOpen \o "\n{\"@context\":\"https://schema.org\",\"@type\":\"WebPage\","
        \o "\"name\":\"PDF Compression API\"}\n    </script>\n" }

\* no rule, the rule of the template, and the rules enhance_api_pages adds
CssVariants ==
    { "", "        " \o PostmanHoverRule \o "\n",
      "        " \o PostmanHoverRule \o EXTRA_CSS \o "        \n" }

BreadcrumbVariants == {"", BreadcrumbNav("PDF Compression") \o "\n        "}

HeadingVariants ==
    { "<h1>PDF Compression API</h1>\n                " \o LeadOpen \o "Compress PDFs</p>\n",
      "<h1>PDF <em>Compression</em> API</h1>\n" \o LeadOpen \o "Compress PDFs</p>\n",
      LeadOpen \o "New</p>\n<h1>PDF Compression API</h1>\n" \o LeadOpen \o "Compress PDFs</p>\n",
      LeadOpen \o "New</p>\n<h1>PDF Compression API</h1>\n" \o LeadOpen \o "Compress PDFs</p>\n"
        \o "<h1>Limits</h1>\n" \o LeadOpen \o "80MB max.</p>\n" }

AlsoUsefulList ==
    "<p>Also useful if you're looking for:</p>\n<ul><li>PDF shrinker</li></ul>\n"

ListVariants == {"", AlsoUsefulList \o AlsoUsefulList}

ScriptVariants ==
    { "document.getElementById('postman-download').addEventListener('click',function(){});",
      "var toggleErrors=document.getElementById('toggle-errors')||null;\n"
        \o "    document.querySelectorAll('.lang-tabs');" }

PageOf(canonical, ldjson, css, breadcrumb, heading, lists, script) ==
    "<head>\n    <title>PDF Compression API | RapidAPI</title>\n"
    \o canonical
    \o "    " \o OgTitleOpen \o " content=\"PDF Compression API\">\n"
    \o ldjson
    \o "    <style>\n" \o css \o "    </style>\n</head>\n<body>\n        "
    \o breadcrumb
    \o "<article>\n" \o heading
    \o ExpectOpen \o "JSON over HTTPS.</section>\n"
    \o lists
    \o AboutOpen \o "\n" \o LongDescOpen \o "\n<p>Compress PDFs</p>\n</div></section>\n"
    \o "        </article>\n        <footer></footer>\n<script>\n    "
    \o script \o "\n</script>\n</body>\n"

Pages ==
    {PageOf(c, l, s, b, h, u, j) :
        c \in CanonicalVariants, l \in LdJsonVariants, s \in CssVariants,
        b \in BreadcrumbVariants, h \in HeadingVariants, u \in ListVariants,
        j \in ScriptVariants}

(***************************************************************************)
(* Inputs of load_rapid_data: the folder of the slug and the two files     *)
(***************************************************************************)
\* a file of the API folder: missing, present but failing to open or read
\* (OSError), or present with its text
Absent == [state |-> "absent", text |-> ""]
Unreadable == [state |-> "unreadable", text |-> ""]
FileOf(text) == [state |-> "file", text |-> text]

RapidFileTexts ==
    { "",
      "**Error codes:** ~AUTH_INVALID~, ~FOO_BAR~",
      JsonSection("## Response 400", "{\"error\": \"INVALID_JSON\", \"message\": \"bad\"}"),
      "**Error codes:** ~MISSING_PAYLOAD~, ~FOO_BAR~\n\n"
          \o JsonSection("## Response 400", "{\"error\": \"INVALID_JSON\", \"message\": \"bad\"}"),
      "Path: normalize\n\n" \o JsonSection("### Example Request Body", "{\"a\": 1}"),
      JsonSection("## Response 200 = JSON Schema", "[1]"),
      JsonSection("## Response 500", "{\"error\": \"INVALID\\u005fJSON\"}") }

ReadmeFileTexts ==
    { "",
      "intro",
      "| Code | When it happens | HTTP |\n|---|---|---|",
      "| Code | When it happens | HTTP |\n|---|---|---|\n| AUTH_INVALID | bad creds | 401 |",
      "| Code | Description |\n|---|---|---|\n| AUTH_INVALID | bad creds |\n| FOO | **why** |",
      "| Code |\n|---|---|---|\n| AUTH_INVALID | bad creds | 401 |",
      "| Code | Description |\n|---|---|\n| auth_invalid | x |" }

\* SLUG_TO_API_FOLDER.get(slug): "" stands for None
Folders == {"", "retail-data-normalization"}

(***************************************************************************)
(* generate_api_pages.main: the catalog, the overrides and the inputs      *)
(***************************************************************************)
escape_AmpOnly(s) == Join(Split(s, "&"), "&amp;")

\* line 614
escape(s) ==
    Join(Split(Join(Split(Join(Split(Join(Split(s, "&"), "&amp;"), "<"), "&lt;"),
                          ">"), "&gt;"), "\""), "&quot;")

\* lines 459-606: CONFIG, shortened to two entries and to the keys main
\* reads or writes, in the order of the list; the second entry has no
\* "body", as "pdf-table-extraction" in the source
STATIC_CONFIG ==
    << <<KV("slug", "event-listing-normalization"),
         KV("description", "Normalize event data."),
         KV("path", "/normalize"),
         KV("body", "{\"source\":\"meetup\",\"raw\":{}}"),
         KV("request_schema", <<Row("source", "string", "Platform identifier.")>>),
         KV("response_schema", <<Row("normalized", "object|array", "Canonical event(s).")>>)>>,
       <<KV("slug", "pdf-table-extraction"),
         KV("description", "Extract tables from PDFs."),
         KV("path", "/extract"),
         KV("request_schema", <<Row("file", "file", "The PDF.")>>),
         KV("response_schema", <<Row("tables", "array", "Extracted tables.")>>)>> >>

\* c[key] for a key the entry has
Item(c, key) == c[CHOOSE i \in 1..Len(c) : c[i].key = key].val

\* key in c
HasKey(c, key) == \E i \in 1..Len(c) : c[i].key = key

\* c[key] = val: the value is replaced, a new key is added at the end
SetItem(c, key, val) ==
    IF HasKey(c, key)
    THEN [i \in 1..Len(c) |-> IF c[i].key = key THEN KV(key, val) ELSE c[i]]
    ELSE Append(c, KV(key, val))

\* lines 962-975: the key of rapid_data and the key of the entry it sets, in
\* the order of the code
OVERRIDES ==
    << <<"short_description", "description">>,
       <<"long_description", "long_description">>,
       <<"path", "path">>,
       <<"body", "body">>,
       <<"request_schema", "request_schema">>,
       <<"response_schema", "response_schema">>,
       <<"error_codes", "error_codes">> >>

\* the keys of rapid_data whose values are str; the others hold lists
StringKeys == {"short_description", "long_description", "path", "body"}

GetIsTrue_KeyOnly(rapid, key) == HasKey(rapid, key)

\* bool(rapid_data.get(key)): None, '' and [] are false
GetIsTrue(rapid, key) ==
    /\ HasKey(rapid, key)
    /\ IF key \in StringKeys THEN Item(rapid, key) # "" ELSE Item(rapid, key) # <<>>

\* lines 962-975: the first n of the seven tests
RECURSIVE OverrideAll(_, _, _)
OverrideAll(c, rapid, n) ==
    IF n = 0 THEN c
    ELSE LET before == OverrideAll(c, rapid, n - 1)
         IN  IF GetIsTrue(rapid, OVERRIDES[n][1])
             THEN SetItem(before, OVERRIDES[n][2], Item(rapid, OVERRIDES[n][1]))
             ELSE before

\* line 611 after rstrip("/")
SitemapBase == RStripChar(BASE, "/")

\* lines 983-987: the (loc, priority, changefreq) triples
SitemapUrls(config) ==
    <<[loc |-> SitemapBase \o "/", priority |-> "1.0", changefreq |-> "weekly"]>>
    \o [i \in 1..Len(config) |->
           [loc |-> SitemapBase \o "/apis/" \o Item(config[i], "slug") \o ".html",
            priority |-> "0.8", changefreq |-> "monthly"]]

\* lines 992-993: the <loc> line of an entry of the sitemap
LocLine(url) == "    <loc>" \o escape(url.loc) \o "</loc>"

\* a Rapid.md with every field main reads
FullRapidText ==
    "## Short Description\n~~~\nFast and small\n~~~\n\n"
    \o "~~~markdown\n# Overview\n~~~\n\n"
    \o "**Path**: ~/normalize~\n\n"
    \o JsonSection("### Example Request Body", "{\"a\": 1}") \o "\n\n"
    \o JsonSection("## Request body = JSON Schema",
                   "{\"properties\": {\"a\": {\"type\": \"array\"}}}") \o "\n\n"
    \o JsonSection("## Response 200", "{\"id\": 1, \"name\": \"x\"}") \o "\n\n"
    \o "**Error codes:** ~AUTH_INVALID~, ~FOO_BAR~"

\* the documentation folder of an entry: the Rapid.md and the README.md
DocFolder(rapid, readme) == [rapid |-> rapid, readme |-> readme]

DocFolders ==
    { DocFolder(Absent, Absent),
      DocFolder(Unreadable, FileOf("intro")),
      DocFolder(FileOf(""), Absent),
      DocFolder(FileOf(""),
                FileOf("| Code | Description |\n|---|---|\n| auth_invalid | x |")),
      DocFolder(FileOf(FullRapidText), Unreadable),
      DocFolder(FileOf("## Short Description\n~~~\n\n~~~\n\n**Path**: ~/normalize~"), Absent),
      DocFolder(FileOf(JsonSection("## Response 200 = JSON Schema", "[1]")), Absent) }

(***************************************************************************)
(* long_description_to_html: the inputs                                    *)
(***************************************************************************)
\* the largest number of lines of a long description
MaxDescLines == 3

\* lines of a long description: blank, text, list items with either mark,
\* headings, a heading that holds a list mark, text with markup, a bare mark
DescLines ==
    { "", "  ", "Fast.", "- one", "* two", "## Use", "# - three",
      "<ul><li>&", "  - four </ul>", "-" }

DescTexts ==
    {Join(ls, "\n") : ls \in UNION {[1..n -> DescLines] : n \in 0..MaxDescLines}}

(***************************************************************************)
(* The row functions as a state machine.  One call is in progress: fn      *)
(* names the function, the arguments are fixed by Init, the loop of        *)
(* _expand_schema_properties takes one step per property.                  *)
(***************************************************************************)
VARIABLES
    fn,            \* "expand", "example", "merge" or "infer"
    properties,    \* _expand_schema_properties: the properties argument
    for_request,   \* _expand_schema_properties: the for_request flag
    schema_json,   \* _response_schema_from_schema_and_example: the schema
    example_json,  \* the example (the obj argument of _example_to_rows)
    idx,           \* 1-based position of the loop over properties.items()
    added,         \* the rows the last loop iteration appended
    rows,          \* the rows list (the return value once rows_pc = "done")
    typ,           \* the label _infer_type_from_value returned, "" before
    rows_raised,   \* an exception left the function
    rows_pc        \* "call", "loop", "done"; "idle" when no call is modelled

varsRows == <<fn, properties, for_request, schema_json, example_json,
              idx, added, rows, typ, rows_raised, rows_pc>>

(***************************************************************************)
(* _parse_readme_error_table as a state machine: the header search is one  *)
(* step, the loop over the data rows takes one step per line.              *)
(***************************************************************************)
VARIABLES
    readme_content,  \* the README text
    header_idx,      \* 0-based index of the header row, -1 for None
    line_no,         \* 0-based index i of the loop over the data rows
    appended,        \* the entries the last loop iteration appended
    codes,           \* the codes list (the return value once "done")
    table_pc         \* "call", "rows", "done"; "idle" when not modelled

varsTable == <<readme_content, header_idx, line_no, appended, codes, table_pc>>

(***************************************************************************)
(* parse_rapid_md as a state machine: one step per field of the record, in *)
(* the order of the code.                                                  *)
(***************************************************************************)
VARIABLES
    content,       \* the Rapid.md text
    out,           \* the record under construction: entries [key, val]
    parse_raised,  \* an exception left parse_rapid_md
    response_schema_json,   \* the local of line 275, JNull for None
    response_example_json,  \* the local of line 276, JNull for None
    parse_pc       \* the field handled next, then "done"; "idle" when not modelled

varsParse ==
    <<content, out, parse_raised, response_schema_json, response_example_json,
      parse_pc>>

(***************************************************************************)
(* The patch scripts as a state machine: one script is run on the page     *)
(* file, again and again; each run reads the file, applies its steps in    *)
(* order to html and writes the file.                                      *)
(***************************************************************************)
VARIABLES
    script,    \* "add_nav_cta_og" or "enhance_api_pages"
    file,      \* the text of the page file
    html,      \* the text the running script works on
    changed,   \* add_nav_cta_og: the changed flag
    written,   \* the run in progress has written the file and reported it
    run_no,    \* the number of the run in progress
    previous,  \* the text of the file when the run in progress started
    patch_pc   \* the step taken next, "end" after a run; "idle" when not modelled

varsPatch == <<script, file, html, changed, written, run_no, previous, patch_pc>>

(***************************************************************************)
(* load_rapid_data as a state machine: it opens Rapid.md, runs             *)
(* parse_rapid_md on it, opens README.md, runs _parse_readme_error_table   *)
(* on it and puts its entries into the record.                             *)
(***************************************************************************)
VARIABLES
    folder,       \* SLUG_TO_API_FOLDER.get(slug), "" for None
    rapid_file,   \* Rapid.md of the folder
    readme_file,  \* README.md of the folder
    load_result,  \* "none" (None returned), "record" (out returned),
                  \* "raised", "" while running
    load_pc       \* "call", "parse", "table", "done"; "idle" when not modelled

varsLoad == <<folder, rapid_file, readme_file, load_result, load_pc>>

(***************************************************************************)
(* generate_api_pages.main as a state machine: the loop over CONFIG takes  *)
(* three steps per entry (the call of load_rapid_data, the overrides, the  *)
(* page), then the sitemap and the robots file are written.                *)
(***************************************************************************)
VARIABLES
    config,        \* CONFIG: the entries, each a list of [key, val]
    slug_folder,   \* SLUG_TO_API_FOLDER.get of each entry, "" for None
    docs,          \* the documentation folder of each entry
    entry_no,      \* the 1-based index of the entry the loop is at
    wrote,         \* the files written so far, in order
    sitemap,       \* the lines of the sitemap file, <<>> before it is written
    main_pc        \* "load", "override", "page", "sitemap", "robots",
                   \* "done", "raised"; "idle" when not modelled

varsMain == <<config, slug_folder, docs, entry_no, wrote, sitemap, main_pc>>

(***************************************************************************)
(* long_description_to_html as a state machine: one step per line          *)
(***************************************************************************)
VARIABLES
    md_text,      \* the argument
    desc_lines,   \* lines: md_text.strip().split("\n")
    html_lines,   \* out: the list of markup lines
    in_list,      \* in_list
    desc_line,    \* the 1-based index of the line the loop is at
    desc_html,    \* the returned text, "" before the return
    desc_pc       \* "call", "loop", "return", "done"; "idle" when not modelled

varsDesc == <<md_text, desc_lines, html_lines, in_list, desc_line, desc_html, desc_pc>>

(***************************************************************************)
(* Each specification runs one area; the variables of the others rest.     *)
(***************************************************************************)
vars == <<varsRows, varsTable, varsParse, varsPatch, varsLoad, varsMain, varsDesc>>

notRows == <<varsTable, varsParse, varsPatch, varsLoad, varsMain, varsDesc>>
notTable == <<varsRows, varsParse, varsPatch, varsLoad, varsMain, varsDesc>>
notParse == <<varsRows, varsTable, varsPatch, varsLoad, varsMain, varsDesc>>
notPatch == <<varsRows, varsTable, varsParse, varsLoad, varsMain, varsDesc>>
notMain == <<varsRows, varsTable, varsParse, varsPatch, varsLoad, varsDesc>>
notDesc == <<varsRows, varsTable, varsParse, varsPatch, varsLoad, varsMain>>

RowsIdle ==
    /\ fn = "none" /\ properties = JNull /\ for_request = FALSE
    /\ schema_json = JNull /\ example_json = JNull
    /\ idx = 0 /\ added = <<>> /\ rows = <<>> /\ typ = ""
    /\ rows_raised = FALSE /\ rows_pc = "idle"

RowsInit ==
    /\ idx = 0 /\ added = <<>> /\ rows = <<>> /\ typ = ""
    /\ rows_raised = FALSE /\ rows_pc = "call"
    /\ \/ /\ fn = "expand"
          /\ properties \in ExpandInputs
          /\ for_request \in BOOLEAN
          /\ schema_json = JNull /\ example_json = JNull
       \/ /\ fn = "example"
          /\ example_json \in ExampleInputs
          /\ properties = JNull /\ for_request = FALSE /\ schema_json = JNull
       \/ /\ fn = "merge"
          /\ schema_json \in SchemaInputs
          /\ example_json \in ExampleInputs
          /\ properties = JNull /\ for_request = FALSE
       \/ /\ fn = "infer"
          /\ example_json \in InferInputs
          /\ properties = JNull /\ for_request = FALSE /\ schema_json = JNull

rowsArgs == <<fn, properties, for_request, schema_json, example_json>>

\* _expand_schema_properties, lines 78-80: the guard and rows = []
ExpandCall ==
    /\ fn = "expand" /\ rows_pc = "call"
    /\ IF ~Truthy(properties) \/ properties.k # "dict"
       THEN rows_pc' = "done" /\ idx' = idx
       ELSE rows_pc' = "loop" /\ idx' = 1
    /\ UNCHANGED <<rowsArgs, added, rows, rows_raised>>
    /\ UNCHANGED typ
    /\ UNCHANGED notRows

ExpandStep_Prepend ==
    /\ fn = "expand" /\ rows_pc = "loop" /\ idx <= Len(properties.kids)
    /\ LET r == PropertyRows(properties.kids[idx].key, properties.kids[idx].val,
                             for_request, "")
       IN  IF r.ok
           THEN /\ rows' = r.rows \o rows
                /\ added' = r.rows
                /\ idx' = idx + 1
                /\ UNCHANGED <<rows_raised, rows_pc>>
           ELSE /\ rows_raised' = TRUE
                /\ rows_pc' = "done"
                /\ UNCHANGED <<rows, added, idx>>
    /\ UNCHANGED rowsArgs
    /\ UNCHANGED typ
    /\ UNCHANGED notRows

\* lines 81-128: one iteration of the loop
ExpandStep ==
    /\ fn = "expand" /\ rows_pc = "loop" /\ idx <= Len(properties.kids)
    /\ LET r == PropertyRows(properties.kids[idx].key, properties.kids[idx].val,
                             for_request, "")
       IN  IF r.ok
           THEN /\ rows' = rows \o r.rows
                /\ added' = r.rows
                /\ idx' = idx + 1
                /\ UNCHANGED <<rows_raised, rows_pc>>
           ELSE /\ rows_raised' = TRUE
                /\ rows_pc' = "done"
                /\ UNCHANGED <<rows, added, idx>>
    /\ UNCHANGED rowsArgs
    /\ UNCHANGED typ
    /\ UNCHANGED notRows

\* line 129: return rows
ExpandReturn ==
    /\ fn = "expand" /\ rows_pc = "loop" /\ idx > Len(properties.kids)
    /\ rows_pc' = "done"
    /\ UNCHANGED <<rowsArgs, idx, added, rows, rows_raised>>
    /\ UNCHANGED typ
    /\ UNCHANGED notRows

\* _example_to_rows(example_json), lines 134-136: the guard and rows = []
ExampleCall ==
    /\ fn = "example" /\ rows_pc = "call"
    /\ IF example_json.k # "dict"
       THEN rows_pc' = "done" /\ idx' = idx
       ELSE rows_pc' = "loop" /\ idx' = 1
    /\ UNCHANGED <<rowsArgs, added, rows, rows_raised>>
    /\ UNCHANGED typ
    /\ UNCHANGED notRows

\* lines 137-157: one iteration of the loop over obj.items()
ExampleStep ==
    /\ fn = "example" /\ rows_pc = "loop" /\ idx <= Len(example_json.kids)
    /\ added' = ExampleKeyRows(example_json.kids[idx].key,
                               example_json.kids[idx].val)
    /\ rows' = rows \o added'
    /\ idx' = idx + 1
    /\ UNCHANGED <<rowsArgs, rows_raised, rows_pc>>
    /\ UNCHANGED typ
    /\ UNCHANGED notRows

\* line 158: return rows
ExampleReturn ==
    /\ fn = "example" /\ rows_pc = "loop" /\ idx > Len(example_json.kids)
    /\ rows_pc' = "done"
    /\ UNCHANGED <<rowsArgs, idx, added, rows, rows_raised>>
    /\ UNCHANGED typ
    /\ UNCHANGED notRows

\* _response_schema_from_schema_and_example(schema_json, example_json),
\* lines 171-213
MergeSchemaAndExample ==
    /\ fn = "merge" /\ rows_pc = "call"
    /\ \E order \in IterationOrders(ArrayFieldsWithoutItems(SchemaRows(schema_json).rows)) :
          LET r == _response_schema_from_schema_and_example(
                       schema_json, example_json, order)
          IN  /\ rows' = r.rows
              /\ rows_raised' = ~r.ok
    /\ rows_pc' = "done"
    /\ UNCHANGED <<rowsArgs, idx, added>>
    /\ UNCHANGED typ
    /\ UNCHANGED notRows

\* _infer_type_from_value(example_json), lines 47-63
InferType ==
    /\ fn = "infer" /\ rows_pc = "call"
    /\ typ' = _infer_type_from_value(example_json)
    /\ rows_pc' = "done"
    /\ UNCHANGED <<rowsArgs, idx, added, rows, rows_raised>>
    /\ UNCHANGED notRows

RowsNext ==
    \/ ExpandCall
    \/ ExpandStep
    \/ ExpandReturn
    \/ ExampleCall
    \/ ExampleStep
    \/ ExampleReturn
    \/ MergeSchemaAndExample
    \/ InferType

TableIdle ==
    /\ readme_content = "" /\ header_idx = -1 /\ line_no = 0
    /\ appended = <<>> /\ codes = <<>> /\ table_pc = "idle"

TableInit ==
    /\ readme_content \in ReadmeInputs
    /\ header_idx = -1 /\ line_no = 0
    /\ appended = <<>> /\ codes = <<>> /\ table_pc = "call"

ReadmeLinesOf == Split(readme_content, "\n")
HeaderCells == Cells(ReadmeLinesOf[header_idx + 1])

\* lines 358-381: find the header row and map the columns
TableFindHeader ==
    /\ table_pc = "call"
    /\ header_idx' = HeaderIndex(ReadmeLinesOf)
    /\ IF header_idx' = -1 \/ DescCol(Cells(ReadmeLinesOf[header_idx' + 1])) = -1
       THEN table_pc' = "done" /\ line_no' = line_no
       ELSE table_pc' = "rows" /\ line_no' = header_idx' + 2
    /\ UNCHANGED <<readme_content, appended, codes>>
    /\ UNCHANGED notTable

\* lines 382-394: one iteration over a table line
TableRow ==
    /\ table_pc = "rows"
    /\ line_no < Len(ReadmeLinesOf)
    /\ IsTableLine(ReadmeLinesOf[line_no + 1])
    /\ appended' = RowEntries(ReadmeLinesOf[line_no + 1],
                              DescCol(HeaderCells), HttpCol(HeaderCells))
    /\ codes' = codes \o appended'
    /\ line_no' = line_no + 1
    /\ UNCHANGED <<readme_content, header_idx, table_pc>>
    /\ UNCHANGED notTable

\* lines 384-385 and 395: a non-table line or the end of the text ends the loop
TableReturn ==
    /\ table_pc = "rows"
    /\ IF line_no < Len(ReadmeLinesOf)
       THEN ~IsTableLine(ReadmeLinesOf[line_no + 1]) ELSE TRUE
    /\ table_pc' = "done"
    /\ UNCHANGED <<readme_content, header_idx, line_no, appended, codes>>
    /\ UNCHANGED notTable

TableNext == TableFindHeader \/ TableRow \/ TableReturn

ParseIdle ==
    /\ content = "" /\ out = <<>> /\ parse_raised = FALSE /\ parse_pc = "idle"
    /\ response_schema_json = JNull /\ response_example_json = JNull

\* line 218: out = {}
ParseInit ==
    /\ content \in RapidDocuments
    /\ out = <<>> /\ parse_raised = FALSE
    /\ response_schema_json = JNull /\ response_example_json = JNull
    /\ parse_pc = "short_description"

\* lines 220-226
ParseShortDescription ==
    /\ parse_pc = "short_description"
    /\ out' = out \o ShortDescriptionEntries(content)
    /\ parse_pc' = "long_description"
    /\ UNCHANGED <<content, parse_raised, response_schema_json, response_example_json>>
    /\ UNCHANGED notParse

\* lines 228-230
ParseLongDescription ==
    /\ parse_pc = "long_description"
    /\ out' = out \o LongDescriptionEntries(content)
    /\ parse_pc' = "path"
    /\ UNCHANGED <<content, parse_raised, response_schema_json, response_example_json>>
    /\ UNCHANGED notParse

\* lines 232-234
ParsePath ==
    /\ parse_pc = "path"
    /\ out' = out \o PathEntries(content)
    /\ parse_pc' = "body"
    /\ UNCHANGED <<content, parse_raised, response_schema_json, response_example_json>>
    /\ UNCHANGED notParse

\* lines 236-261
ParseBody ==
    /\ parse_pc = "body"
    /\ out' = out \o BodyEntries(content)
    /\ parse_pc' = "request_schema"
    /\ UNCHANGED <<content, parse_raised, response_schema_json, response_example_json>>
    /\ UNCHANGED notParse

\* lines 263-273
ParseRequestSchema ==
    /\ parse_pc = "request_schema"
    /\ \E r \in {RequestSchemaEntries(content)} :
           IF r.ok
           THEN /\ out' = out \o r.entries
                /\ parse_pc' = "response_schema"
                /\ UNCHANGED parse_raised
           ELSE /\ parse_raised' = TRUE
                /\ parse_pc' = "done"
                /\ UNCHANGED out
    /\ UNCHANGED <<content, response_schema_json, response_example_json>>
    /\ UNCHANGED notParse

\* lines 275-318
ParseResponseSchema ==
    /\ parse_pc = "response_schema"
    /\ \E in \in {ResponseInputs(content)} :
           IF ~in.ok
           THEN /\ parse_raised' = TRUE
                /\ parse_pc' = "done"
                /\ UNCHANGED <<out, response_schema_json, response_example_json>>
           ELSE /\ response_schema_json' = in.schema
                /\ response_example_json' = in.example
                /\ \E order \in IterationOrders(
                                ArrayFieldsWithoutItems(SchemaRows(in.schema).rows)) :
                     \E r \in {_response_schema_from_schema_and_example(
                                   in.schema, in.example, order)} :
                         IF r.ok
                         THEN /\ out' = Append(out, KV("response_schema", r.rows))
                              /\ parse_pc' = "error_codes"
                              /\ UNCHANGED parse_raised
                         ELSE /\ parse_raised' = TRUE
                              /\ parse_pc' = "done"
                              /\ UNCHANGED out
    /\ UNCHANGED content
    /\ UNCHANGED notParse

\* lines 320-321
ParseErrorCodes ==
    /\ parse_pc = "error_codes"
    /\ \E r \in {_parse_error_codes(content)} :
           IF r.ok
           THEN /\ out' = Append(out, KV("error_codes", r.codes))
                /\ UNCHANGED parse_raised
           ELSE /\ parse_raised' = TRUE
                /\ UNCHANGED out
    /\ parse_pc' = "done"
    /\ UNCHANGED <<content, response_schema_json, response_example_json>>
    /\ UNCHANGED notParse

ParseNext ==
    \/ ParseShortDescription
    \/ ParseLongDescription
    \/ ParsePath
    \/ ParseBody
    \/ ParseRequestSchema
    \/ ParseResponseSchema
    \/ ParseErrorCodes

PatchIdle ==
    /\ script = "none" /\ file = "" /\ html = "" /\ changed = FALSE /\ written = FALSE
    /\ run_no = 0 /\ previous = "" /\ patch_pc = "idle"

PatchInit ==
    /\ script \in {"add_nav_cta_og", "enhance_api_pages"}
    /\ file \in Pages
    /\ html = "" /\ changed = FALSE /\ written = FALSE
    /\ run_no = 1 /\ previous = file /\ patch_pc = "read"

\* add_nav_cta_og.py lines 43-49
AddNavRead ==
    /\ script = "add_nav_cta_og" /\ patch_pc = "read"
    /\ html' = file /\ changed' = FALSE /\ patch_pc' = "nav"
    /\ UNCHANGED <<script, file, written, run_no, previous>>
    /\ UNCHANGED notPatch

\* add_nav_cta_og.py lines 50-58
AddNavStepNav ==
    /\ script = "add_nav_cta_og" /\ patch_pc = "nav"
    /\ html' = AddGlobalNav(html).html
    /\ changed' = (changed \/ AddGlobalNav(html).hit)
    /\ patch_pc' = "cta"
    /\ UNCHANGED <<script, file, written, run_no, previous>>
    /\ UNCHANGED notPatch

\* add_nav_cta_og.py lines 60-67
AddNavStepCta ==
    /\ script = "add_nav_cta_og" /\ patch_pc = "cta"
    /\ html' = AddCta(html).html
    /\ changed' = (changed \/ AddCta(html).hit)
    /\ patch_pc' = "og"
    /\ UNCHANGED <<script, file, written, run_no, previous>>
    /\ UNCHANGED notPatch

\* add_nav_cta_og.py lines 69-78
AddNavStepOg ==
    /\ script = "add_nav_cta_og" /\ patch_pc = "og"
    /\ html' = AddOgTwitter(html).html
    /\ changed' = (changed \/ AddOgTwitter(html).hit)
    /\ patch_pc' = "write"
    /\ UNCHANGED <<script, file, written, run_no, previous>>
    /\ UNCHANGED notPatch

\* add_nav_cta_og.py lines 80-83
AddNavWrite ==
    /\ script = "add_nav_cta_og" /\ patch_pc = "write"
    /\ file' = IF changed THEN html ELSE file
    /\ written' = changed
    /\ patch_pc' = "end"
    /\ UNCHANGED <<script, html, changed, run_no, previous>>
    /\ UNCHANGED notPatch

\* enhance_api_pages.py lines 195-217: read, and the two early exits
EnhanceRead ==
    /\ script = "enhance_api_pages" /\ patch_pc = "read"
    /\ html' = file
    /\ patch_pc' = IF AlreadyEnhanced(file) \/ ~HasFlatLdJson(file)
                   THEN "end" ELSE "step1"
    /\ UNCHANGED <<script, file, changed, written, run_no, previous>>
    /\ UNCHANGED notPatch

\* one numbered step of enhance_api_pages.main
EnhanceStep(pc, next, result) ==
    /\ script = "enhance_api_pages" /\ patch_pc = pc
    /\ html' = result
    /\ patch_pc' = next
    /\ UNCHANGED <<script, file, changed, written, run_no, previous>>
    /\ UNCHANGED notPatch

\* lines 218-248
EnhanceStep1 == EnhanceStep("step1", "step2", EnhanceMeta(html))
\* lines 250-252
EnhanceStep2 == EnhanceStep("step2", "step3", EnhanceCss(html))
\* lines 254-257
EnhanceStep3 == EnhanceStep("step3", "step4", EnhanceNavCta(html))
\* lines 259-269
EnhanceStep4 == EnhanceStep("step4", "step5", EnhanceRelated(html))
\* lines 271-280
EnhanceStep5 == EnhanceStep("step5", "step6", EnhanceWhoShouldUse(html))
\* lines 282-284
EnhanceStep6 == EnhanceStep("step6", "step7", EnhanceRemoveAlsoUseful(html))
\* lines 286-299
EnhanceStep7 == EnhanceStep("step7", "step8", EnhanceFaq(html))
\* lines 301-305
EnhanceStep8 == EnhanceStep("step8", "write", EnhanceFaqScript(html))

\* enhance_api_pages.py lines 307-309
EnhanceWrite ==
    /\ script = "enhance_api_pages" /\ patch_pc = "write"
    /\ file' = html
    /\ written' = TRUE
    /\ patch_pc' = "end"
    /\ UNCHANGED <<script, html, changed, run_no, previous>>
    /\ UNCHANGED notPatch

\* the script is run once more on the file it left
RunAgain ==
    /\ patch_pc = "end" /\ run_no < MaxRuns
    /\ run_no' = run_no + 1
    /\ previous' = file
    /\ written' = FALSE
    /\ patch_pc' = "read"
    /\ UNCHANGED <<script, file, html, changed>>
    /\ UNCHANGED notPatch

PatchNext ==
    \/ AddNavRead \/ AddNavStepNav \/ AddNavStepCta \/ AddNavStepOg \/ AddNavWrite
    \/ EnhanceRead
    \/ EnhanceStep1 \/ EnhanceStep2 \/ EnhanceStep3 \/ EnhanceStep4
    \/ EnhanceStep5 \/ EnhanceStep6 \/ EnhanceStep7 \/ EnhanceStep8
    \/ EnhanceWrite
    \/ RunAgain

LoadIdle ==
    /\ folder = "" /\ rapid_file = Absent /\ readme_file = Absent
    /\ load_result = "" /\ load_pc = "idle"

LoadInit ==
    /\ folder \in Folders
    /\ rapid_file \in {Absent, Unreadable} \cup {FileOf(t) : t \in RapidFileTexts}
    /\ readme_file \in {Absent, Unreadable} \cup {FileOf(t) : t \in ReadmeFileTexts}
    /\ load_result = "" /\ load_pc = "call"

\* the record with the value of the key replaced: out[key] = val for a key
\* the record has
WithValue(record, key, val) ==
    [i \in 1..Len(record) |->
        IF record[i].key = key THEN KV(key, val) ELSE record[i]]

\* lines 435-446: no folder, no Rapid.md or a failing read return None;
\* otherwise parse_rapid_md is called on the text
LoadCall ==
    /\ load_pc = "call"
    /\ IF folder = "" \/ rapid_file.state # "file"
       THEN /\ load_result' = "none" /\ load_pc' = "done"
            /\ UNCHANGED varsParse
       ELSE /\ content' = rapid_file.text
            /\ parse_pc' = "short_description"
            /\ load_pc' = "parse"
            /\ UNCHANGED <<out, parse_raised, response_schema_json,
                           response_example_json, load_result>>
    /\ UNCHANGED <<folder, rapid_file, readme_file>>
    /\ UNCHANGED <<varsRows, varsTable, varsPatch, varsMain, varsDesc>>

\* lines 446-451 and 455-457: parse_rapid_md is back; without a README, or
\* when reading it fails, out is returned; otherwise
\* _parse_readme_error_table is called on the text
LoadReadme ==
    /\ load_pc = "parse" /\ parse_pc = "done"
    /\ IF parse_raised
       THEN /\ load_result' = "raised" /\ load_pc' = "done"
            /\ UNCHANGED <<readme_content, table_pc>>
       ELSE IF readme_file.state # "file"
       THEN /\ load_result' = "record" /\ load_pc' = "done"
            /\ UNCHANGED <<readme_content, table_pc>>
       ELSE /\ readme_content' = readme_file.text
            /\ table_pc' = "call"
            /\ load_pc' = "table"
            /\ UNCHANGED load_result
    /\ UNCHANGED <<header_idx, line_no, appended, codes>>
    /\ UNCHANGED <<folder, rapid_file, readme_file>>
    /\ UNCHANGED <<varsRows, varsParse, varsPatch, varsMain, varsDesc>>

LoadMerge_Extend ==
    /\ load_pc = "table" /\ table_pc = "done"
    /\ out' = IF codes # <<>>
              THEN WithValue(out, "error_codes",
                             out[Len(out)].val \o codes)
              ELSE out
    /\ load_result' = "record" /\ load_pc' = "done"
    /\ UNCHANGED <<content, parse_raised, response_schema_json,
                   response_example_json, parse_pc>>
    /\ UNCHANGED <<folder, rapid_file, readme_file>>
    /\ UNCHANGED <<varsRows, varsTable, varsPatch, varsMain, varsDesc>>

\* lines 452-454 and 457: the entries of the README table, when there are
\* any, become out["error_codes"]; out is returned
LoadMerge ==
    /\ load_pc = "table" /\ table_pc = "done"
    /\ out' = IF codes # <<>> THEN WithValue(out, "error_codes", codes) ELSE out
    /\ load_result' = "record" /\ load_pc' = "done"
    /\ UNCHANGED <<content, parse_raised, response_schema_json,
                   response_example_json, parse_pc>>
    /\ UNCHANGED <<folder, rapid_file, readme_file>>
    /\ UNCHANGED <<varsRows, varsTable, varsPatch, varsMain, varsDesc>>

LoadNext == LoadCall \/ ParseNext \/ LoadReadme \/ TableNext \/ LoadMerge

MainIdle ==
    /\ config = <<>> /\ slug_folder = <<>> /\ docs = <<>> /\ entry_no = 0
    /\ wrote = <<>> /\ sitemap = <<>> /\ main_pc = "idle"

\* lines 950-958
MainInit ==
    /\ config = STATIC_CONFIG
    /\ slug_folder \in [1..Len(STATIC_CONFIG) -> Folders]
    /\ docs \in [1..Len(STATIC_CONFIG) -> DocFolders]
    /\ entry_no = 1
    /\ wrote = <<>> /\ sitemap = <<>> /\ main_pc = "load"

\* line 960: load_rapid_data(apis_base, c["slug"]) is called
MainLoad ==
    /\ main_pc = "load"
    /\ folder' = slug_folder[entry_no]
    /\ rapid_file' = docs[entry_no].rapid
    /\ readme_file' = docs[entry_no].readme
    /\ load_result' = "" /\ load_pc' = "call"
    /\ content' = "" /\ out' = <<>> /\ parse_raised' = FALSE
    /\ response_schema_json' = JNull /\ response_example_json' = JNull
    /\ parse_pc' = "idle"
    /\ readme_content' = "" /\ header_idx' = -1 /\ line_no' = 0
    /\ appended' = <<>> /\ codes' = <<>> /\ table_pc' = "idle"
    /\ main_pc' = "override"
    /\ UNCHANGED <<config, slug_folder, docs, entry_no, wrote, sitemap>>
    /\ UNCHANGED <<varsRows, varsPatch, varsDesc>>

\* lines 960-975: load_rapid_data is back; an exception of it leaves main,
\* None and {} change nothing, a record overrides the entry key by key
MainOverride ==
    /\ main_pc = "override" /\ load_pc = "done"
    /\ IF load_result = "raised"
       THEN /\ main_pc' = "raised"
            /\ UNCHANGED config
       ELSE /\ main_pc' = "page"
            /\ config' = IF load_result = "record" /\ out # <<>>
                         THEN [config EXCEPT ![entry_no] =
                                  OverrideAll(config[entry_no], out, Len(OVERRIDES))]
                         ELSE config
    /\ UNCHANGED <<slug_folder, docs, entry_no, wrote, sitemap>>
    /\ UNCHANGED notMain

\* lines 976-979: the page of the entry is written; the loop goes on
MainPage ==
    /\ main_pc = "page"
    /\ wrote' = Append(wrote, "apis/" \o Item(config[entry_no], "slug") \o ".html")
    /\ IF entry_no < Len(config)
       THEN /\ entry_no' = entry_no + 1
            /\ main_pc' = "load"
       ELSE /\ main_pc' = "sitemap"
            /\ UNCHANGED entry_no
    /\ UNCHANGED <<config, slug_folder, docs, sitemap>>
    /\ UNCHANGED notMain

\* lines 981-1003 (of the six lines of a url the <loc> line is kept)
MainSitemap ==
    /\ main_pc = "sitemap"
    /\ sitemap' = [i \in 1..Len(SitemapUrls(config)) |-> LocLine(SitemapUrls(config)[i])]
    /\ wrote' = Append(wrote, "sitemap.xml")
    /\ main_pc' = "robots"
    /\ UNCHANGED <<config, slug_folder, docs, entry_no>>
    /\ UNCHANGED notMain

\* lines 1005-1009
MainRobots ==
    /\ main_pc = "robots"
    /\ wrote' = Append(wrote, "robots.txt")
    /\ main_pc' = "done"
    /\ UNCHANGED <<config, slug_folder, docs, entry_no, sitemap>>
    /\ UNCHANGED notMain

MainNext ==
    \/ MainLoad \/ LoadNext \/ MainOverride \/ MainPage \/ MainSitemap \/ MainRobots

DescIdle ==
    /\ md_text = "" /\ desc_lines = <<>> /\ html_lines = <<>> /\ in_list = FALSE
    /\ desc_line = 0 /\ desc_html = "" /\ desc_pc = "idle"

DescInit ==
    /\ md_text \in DescTexts
    /\ desc_lines = <<>> /\ html_lines = <<>> /\ in_list = FALSE
    /\ desc_line = 0 /\ desc_html = "" /\ desc_pc = "call"

\* lines 641-644: the markdown header mark is dropped, the text kept
WithoutHeaderMark(s) ==
    IF StartsWithAt(s, "## ", 1) THEN SubSeq(s, 4, Len(s))
    ELSE IF StartsWithAt(s, "# ", 1) THEN SubSeq(s, 3, Len(s))
    ELSE s

\* line 645
IsListItem(s) == StartsWithAt(s, "- ", 1) \/ StartsWithAt(s, "* ", 1)

\* lines 633-653 for the line after strip(): what the iteration appends to
\* out, and in_list after it
LineMarkup(line, open) ==
    LET s == WithoutHeaderMark(line)
    IN  IF line = ""
        THEN [lines |-> IF open THEN <<"</ul>">> ELSE <<>>, open |-> FALSE]
        ELSE IF IsListItem(s)
        THEN [lines |-> (IF open THEN <<>> ELSE <<"<ul>">>)
                        \o <<"<li>" \o escape(SubSeq(s, 3, Len(s))) \o "</li>">>,
              open |-> TRUE]
        ELSE [lines |-> (IF open THEN <<"</ul>">> ELSE <<>>)
                        \o <<"<p>" \o escape(s) \o "</p>">>,
              open |-> FALSE]

\* lines 626-630: an empty text returns ""; otherwise the stripped text is
\* split into lines
DescCall ==
    /\ desc_pc = "call"
    /\ IF md_text = ""
       THEN /\ desc_pc' = "done"
            /\ UNCHANGED <<desc_lines, desc_line>>
       ELSE /\ desc_lines' = Split(Strip(md_text), "\n")
            /\ desc_line' = 1
            /\ desc_pc' = "loop"
    /\ UNCHANGED <<md_text, html_lines, in_list, desc_html>>
    /\ UNCHANGED notDesc

\* lines 631-653: one iteration of the loop
DescLine ==
    /\ desc_pc = "loop"
    /\ \E m \in {LineMarkup(Strip(desc_lines[desc_line]), in_list)} :
           /\ html_lines' = html_lines \o m.lines
           /\ in_list' = m.open
    /\ IF desc_line < Len(desc_lines)
       THEN desc_line' = desc_line + 1 /\ desc_pc' = "loop"
       ELSE desc_pc' = "return" /\ UNCHANGED desc_line
    /\ UNCHANGED <<md_text, desc_lines, desc_html>>
    /\ UNCHANGED notDesc

\* lines 654-657: an open list is closed, the lines are joined
DescReturn ==
    /\ desc_pc = "return"
    /\ html_lines' = IF in_list THEN Append(html_lines, "</ul>") ELSE html_lines
    /\ desc_html' = Join(html_lines', "\n")
    /\ desc_pc' = "done"
    /\ UNCHANGED <<md_text, desc_lines, in_list, desc_line>>
    /\ UNCHANGED notDesc

DescNext == DescCall \/ DescLine \/ DescReturn

(***************************************************************************)
(* Specifications: one per area of the program; the others stay idle       *)
(***************************************************************************)
InitRows == RowsInit /\ TableIdle /\ ParseIdle /\ PatchIdle /\ LoadIdle /\ MainIdle /\ DescIdle

InitTable == TableInit /\ RowsIdle /\ ParseIdle /\ PatchIdle /\ LoadIdle /\ MainIdle /\ DescIdle

InitParse == ParseInit /\ RowsIdle /\ TableIdle /\ PatchIdle /\ LoadIdle /\ MainIdle /\ DescIdle

InitPatch == PatchInit /\ RowsIdle /\ TableIdle /\ ParseIdle /\ LoadIdle /\ MainIdle /\ DescIdle

InitLoad == LoadInit /\ RowsIdle /\ TableIdle /\ ParseIdle /\ PatchIdle /\ MainIdle /\ DescIdle

InitMain ==
    MainInit /\ RowsIdle /\ TableIdle /\ ParseIdle /\ PatchIdle /\ LoadIdle
    /\ DescIdle

InitDesc ==
    DescInit /\ RowsIdle /\ TableIdle /\ ParseIdle /\ PatchIdle /\ LoadIdle
    /\ MainIdle

SpecRows == InitRows /\ [][RowsNext]_vars

SpecTable == InitTable /\ [][TableNext]_vars

SpecParse == InitParse /\ [][ParseNext]_vars

SpecPatch == InitPatch /\ [][PatchNext]_vars

SpecLoad == InitLoad /\ [][LoadNext]_vars

SpecMain == InitMain /\ [][MainNext]_vars

SpecDesc == InitDesc /\ [][DescNext]_vars

(***************************************************************************)
(* Claims about the row functions (checked under SpecRows)                 *)
(***************************************************************************)
RowsDone == rows_pc = "done"

\* the property the loop of _expand_schema_properties handled last
LastName == properties.kids[idx - 1].key
LastDefn == properties.kids[idx - 1].val
StepTaken == fn = "expand" /\ idx >= 2

DeclaredType(defn, t) == defn.k = "dict" /\ Get(defn, "type") = JStr(t)

\* the 'properties' of the 'items' definition of defn, JNull when there is none
ItemProperties(defn) ==
    IF Get(defn, "items").k = "dict"
    THEN Get(Get(defn, "items"), "properties") ELSE JNull

FieldsOf(rs) == [i \in 1..Len(rs) |-> rs[i].field]

MappingKids(kids) == SelectSeq(kids, LAMBDA e : e.val.k = "dict")

\* C2: _expand_schema_properties raises no error for any properties
\* mapping, however malformed (non-mapping definitions are skipped,
\* wrong-typed description / properties / items.properties still give rows).
C2_ExpandNeverRaises == fn = "expand" => ~rows_raised

GivenDescription(name, defn) ==
    LET own == IF Truthy(Get(defn, "description"))
               THEN Strip(Get(defn, "description").s) ELSE ""
    IN  IF own = "" /\ for_request /\ name \in DOMAIN REQUEST_PAYLOAD_DESCRIPTIONS
        THEN REQUEST_PAYLOAD_DESCRIPTIONS[name] ELSE own

C8_FieldsDistinct ==
    (RowsDone /\ ~rows_raised) =>
        \A i, j \in 1..Len(rows) : i # j => rows[i].field # rows[j].field

\* C9: after the merge with an object example every top-level key of the
\* example is the root segment of the field of at least one row.
C9_EveryExampleKeyHasRow ==
    (fn = "merge" /\ RowsDone /\ ~rows_raised /\ example_json.k = "dict") =>
        \A e \in 1..Len(example_json.kids) :
            \E i \in 1..Len(rows) :
                RootSegment(rows[i].field) = example_json.kids[e].key

\* the example agrees with the schema: a key the schema declares holds a
\* value of the declared type, item and member objects included
ValueMatches(val, defn) ==
    LET t == Get(defn, "type")
    IN  /\ t = JStr("array") => val.k = "list"
        /\ t = JStr("object") => val.k = "dict"
        /\ t = JStr("string") => val.k = "str"
        /\ t = JStr("integer") => val.k = "int"

ExampleMatchesSchema ==
    /\ example_json.k = "dict"
    /\ schema_json.k = "dict"
    /\ Get(schema_json, "properties").k = "dict"
    /\ \A p \in 1..Len(Get(schema_json, "properties").kids) :
          LET name == Get(schema_json, "properties").kids[p].key
              defn == Get(schema_json, "properties").kids[p].val
          IN  Has(example_json, name) =>
                /\ ValueMatches(Get(example_json, name), defn)
                /\ Truthy(ItemProperties(defn)) =>
                     \A e \in 1..Len(Get(example_json, name).kids) :
                        /\ Get(example_json, name).kids[e].val.k = "dict"
                        /\ \A q \in 1..Len(ItemProperties(defn).kids) :
                              Has(Get(example_json, name).kids[e].val,
                                  ItemProperties(defn).kids[q].key) =>
                                ValueMatches(
                                  Get(Get(example_json, name).kids[e].val,
                                      ItemProperties(defn).kids[q].key),
                                  ItemProperties(defn).kids[q].val)

Occurrences(rs, field) == Cardinality({i \in 1..Len(rs) : rs[i].field = field})

\* C10: merging a schema's rows with an example that matches the schema
\* never duplicates a row: every field[].key row of the schema expansion is
\* in the result exactly once.
C10_NoDuplicateItemRow ==
    (fn = "merge" /\ RowsDone /\ ~rows_raised /\ ExampleMatchesSchema) =>
        \A i \in 1..Len(SchemaRows(schema_json).rows) :
            Contains(SchemaRows(schema_json).rows[i].field, "[].") =>
                Occurrences(rows, SchemaRows(schema_json).rows[i].field) = 1

TypeLabels ==
    {"null", "boolean", "integer", "number", "string", "array", "object", "any"}

InferReturned == fn = "infer" /\ RowsDone

\* C14: _infer_type_from_value returns one label of TypeLabels for every
\* value and never raises; a boolean is labelled 'boolean', a value that is
\* none of the JSON types 'any', and each JSON type gets its own label.
C14_InferTypeTotal ==
    InferReturned =>
        /\ ~rows_raised
        /\ typ \in TypeLabels
        /\ typ = CASE example_json.k = "null" -> "null"
                   [] example_json.k = "bool" -> "boolean"
                   [] example_json.k = "int" -> "integer"
                   [] example_json.k = "float" -> "number"
                   [] example_json.k = "str" -> "string"
                   [] example_json.k = "list" -> "array"
                   [] example_json.k = "dict" -> "object"
                   [] OTHER -> "any"

\* the label of the boolean True was inferred
C14_Witness == InferReturned /\ example_json = JTrue /\ typ = "boolean"

\* the definition declares no sub-properties: no 'properties' entry, or an
\* empty one
NoSubProperties(defn) ==
    ~Has(defn, "properties") \/ Get(defn, "properties") = JDict(<<>>)

\* C15: a property of declared type 'object' without declared
\* sub-properties yields exactly one row: the property's name, type
\* 'object', and the description given for it or, when none is given, the
\* generic text; never zero rows (the call does not end at that property
\* without a row) and never more than one.
C15_PlainObjectOneRow ==
    /\ (fn = "expand" /\ rows_raised) =>
           ~(DeclaredType(properties.kids[idx].val, "object")
               /\ NoSubProperties(properties.kids[idx].val))
    /\ (StepTaken /\ DeclaredType(LastDefn, "object") /\ NoSubProperties(LastDefn)) =>
           added = <<Row(LastName, "object",
                         IF GivenDescription(LastName, LastDefn) # ""
                         THEN GivenDescription(LastName, LastDefn)
                         ELSE GenericObjectDescription)>>

\* the key the loop of _example_to_rows handled last, and its value
LastKey == example_json.kids[idx - 1].key
LastVal == example_json.kids[idx - 1].val
ExampleStepTaken == fn = "example" /\ idx >= 2

\* the value is a non-empty array whose first element is an object
FirstIsObject(val) ==
    val.k = "list" /\ val.kids # <<>> /\ Head(val.kids).val.k = "dict"

\* C16: a key whose value is a non-empty array with an object as first
\* element yields exactly one row key[].subkey per key of that first
\* element, in order, described 'Per-item: subkey'; later elements give no
\* row.
C16_FirstElementRows ==
    (ExampleStepTaken /\ FirstIsObject(LastVal)) =>
        /\ Len(added) = Len(Head(LastVal.kids).val.kids)
        /\ \A i \in 1..Len(added) :
              LET subkey == Head(LastVal.kids).val.kids[i].key
              IN  /\ added[i].field = LastKey \o "[]." \o subkey
                  /\ added[i].description = "Per-item: " \o subkey

\* an array of two objects with different keys gave the rows of the first
C16_Witness ==
    /\ ExampleStepTaken /\ FirstIsObject(LastVal)
    /\ Len(LastVal.kids) = 2
    /\ Head(LastVal.kids).val.kids # LastVal.kids[2].val.kids
    /\ Len(added) = 2

\* the keys of a mapping value, {} for any other value
KeysOf(v) == IF v.k = "dict" THEN {v.kids[i].key : i \in 1..Len(v.kids)} ELSE {}

\* the field paths one level below the property: the name itself, name.sub
\* for its sub-properties and name[].sub for the properties of its items
OneLevelFields(name, defn) ==
    {name}
    \cup {name \o "." \o sub : sub \in KeysOf(Get(defn, "properties"))}
    \cup {name \o "[]." \o sub : sub \in KeysOf(ItemProperties(defn))}

RECURSIVE IsSubsequence(_, _)
IsSubsequence(s, t) ==
    IF s = <<>> THEN TRUE
    ELSE IF t = <<>> THEN FALSE
    ELSE IF Head(s) = Head(t) THEN IsSubsequence(Tail(s), Tail(t))
    ELSE IsSubsequence(s, Tail(t))

\* the merge branch of lines 178-197 was taken and has returned
MergeTaken ==
    /\ fn = "merge" /\ RowsDone /\ ~rows_raised
    /\ SchemaRows(schema_json).rows # <<>>
    /\ Truthy(example_json) /\ example_json.k = "dict"

\* the schema-derived row is one the claim lets the merge replace
Replaceable(r) ==
    /\ r.type = "array"
    /\ ~Contains(r.field, "[]")
    /\ r.description = "" \/ Contains(Lower(r.description), "see response example")
    /\ FirstIsObject(Get(example_json, r.field))

\* C23: the merge removes a schema-derived row only if its type is 'array',
\* its field has no '[]', its description is empty or holds 'see response
\* example', and the example's value for the field is a non-empty array with
\* an object first; the row is then replaced by one row field[].k per key k
\* of that object.  Every other schema-derived row is in the result,
\* unchanged and in its original relative order.
C23_OnlyPlaceholderArraysReplaced ==
    MergeTaken =>
        LET base == SchemaRows(schema_json).rows
        IN  /\ IsSubsequence(SelectSeq(base, LAMBDA r : ~Replaceable(r)), rows)
            /\ \A i \in 1..Len(base) :
                  Replaceable(base[i]) =>
                      /\ \A j \in 1..Len(rows) : rows[j] # base[i]
                      /\ LET first == Head(Get(example_json, base[i].field).kids).val.kids
                         IN  \A n \in 1..Len(first) :
                                \E j \in 1..Len(rows) :
                                    /\ rows[j].field = base[i].field \o "[]." \o first[n].key
                                    /\ rows[j].description = "Per-item: " \o first[n].key

(***************************************************************************)
(* Claims about _parse_readme_error_table (checked under SpecTable)        *)
(***************************************************************************)
\* the loop has appended an entry for the line it handled last
RowAppended == table_pc \in {"rows", "done"} /\ appended # <<>>

\* the line the loop handled last
LastLine == ReadmeLinesOf[line_no]

\* the text the row itself gives in the description column, "" when the
\* cell is empty or the row has no such cell
OwnDescriptionCell(line) ==
    IF DescCol(HeaderCells) < Len(Cells(line))
    THEN StripChar(StripChar(Cells(line)[DescCol(HeaderCells) + 1], "*"), "~")
    ELSE ""

\* C5: an entry's description is the ERROR_CODE_DESCRIPTIONS lookup (or the
\* default text) exactly when the row's own description cell is empty, a
\* cell that is present but empty included; otherwise it is the row's text.
C5_LookupIffCellEmpty ==
    RowAppended =>
        IF OwnDescriptionCell(LastLine) = ""
        THEN appended[1].description = DescriptionOrDefault(appended[1].code)
        ELSE appended[1].description = OwnDescriptionCell(LastLine)

\* the text of the cell in 1-based column c of the line, without the
\* emphasis marks the parser drops
CellText(line, c) == StripChar(StripChar(Cells(line)[c], "*"), "~")

TwoColumnExample ==
    "| Code | Description |\n|---|---|---|\n| AUTH_INVALID | bad creds |"

\* C12: under a two-column header every parsed row has the http_status "="
\* and, when it has a second cell, that cell as its description; the table
\* '| Code | Description |', separator, '| AUTH_INVALID | bad creds |' gives
\* the one entry {AUTH_INVALID, "=", "bad creds"}.
C12_TwoColumnTable ==
    /\ (RowAppended /\ Len(HeaderCells) = 2) =>
          /\ appended[1].http_status = NoHttpStatus
          /\ Len(Cells(LastLine)) >= 2 =>
                appended[1].description = CellText(LastLine, 2)
    /\ (table_pc = "done" /\ readme_content = TwoColumnExample) =>
          codes = <<ErrorEntry("AUTH_INVALID", NoHttpStatus, "bad creds")>>

\* the two-column example was parsed to its one entry
C12_Witness ==
    /\ table_pc = "done" /\ readme_content = TwoColumnExample
    /\ Len(HeaderCells) = 2 /\ Len(codes) = 1

\* C13: under a header of three or more columns the second cell of a row
\* is its description and the third cell its HTTP status ("=" when the row
\* has no third cell or an empty one); under a header of fewer than two
\* columns the table is rejected: no row is parsed, whatever lines follow.
C13_ColumnsByHeaderWidth ==
    /\ (RowAppended /\ Len(HeaderCells) >= 3) =>
          /\ Len(Cells(LastLine)) >= 2 =>
                appended[1].description = CellText(LastLine, 2)
          /\ appended[1].http_status =
                IF Len(Cells(LastLine)) >= 3 /\ Cells(LastLine)[3] # ""
                THEN Cells(LastLine)[3] ELSE NoHttpStatus
    /\ (table_pc # "call" /\ header_idx # -1 /\ Len(HeaderCells) < 2) =>
          /\ table_pc = "done"
          /\ codes = <<>> /\ appended = <<>>

\* a row with three cells was parsed under a three-column header
C13_Witness ==
    /\ RowAppended /\ Len(HeaderCells) >= 3
    /\ Len(Cells(LastLine)) = 3
    /\ appended[1] = ErrorEntry("AUTH_INVALID", "401", "bad creds")

(***************************************************************************)
(* Claims about parse_rapid_md (checked under SpecParse)                   *)
(***************************************************************************)
\* parse_rapid_md has returned its record
ParseReturned == parse_pc = "done" /\ ~parse_raised

Present(key) == \E i \in 1..Len(out) : out[i].key = key

ValueOf(key) == out[CHOOSE i \in 1..Len(out) : out[i].key = key].val

\* the text has this line
HasLine(text, line) == \E i \in 1..Len(Split(text, "\n")) : Split(text, "\n")[i] = line

\* the text mentions one of these words, in any case
Mentions(text, words) == \E w \in words : Contains(Lower(text), Lower(w))

\* the words without which no section for the field can be found
SectionWords(key) ==
    CASE key = "short_description" -> {"Short Description", "API Description (Short)"}
      [] key = "long_description" -> {"~~~markdown"}
      [] key = "path" -> {"Path"}
      [] key = "body" -> {"Request body"}
      [] key = "request_schema" -> {"Request body = JSON Schema", "JSON body schema"}
      [] key = "response_schema" -> {"Response 200", "200 Success Response"}
      [] key = "error_codes" ->
            {"Error codes", "Response 400", "Response 413", "Response 500"}

RecordFields ==
    {"short_description", "long_description", "path", "body",
     "request_schema", "response_schema", "error_codes"}

AlwaysPresentFields == {"response_schema", "error_codes"}

NoRecognizedSection == \A key \in RecordFields : ~Mentions(content, SectionWords(key))

\* C1: parse_rapid_md never raises, whatever the document text: a fenced
\* JSON block of an unexpected shape (an array or a scalar under a
\* 'Response 200 = JSON Schema' or a 'Response 400' heading) is skipped.
C1_ParseNeverRaises == ~parse_raised

\* C4: for a document with the line 'Path: normalize' the returned record
\* has path "/normalize" (a missing leading slash is prepended).
C4_MissingSlashPrepended ==
    (ParseReturned /\ HasLine(content, "Path: normalize")) =>
        (Present("path") /\ ValueOf("path") = "/normalize")

FallbackTaken ==
    /\ Present("response_schema")
    /\ ~Truthy(LabelledResponseSchema(content).value)
    /\ ~Truthy(LabelledResponseExample(content))
    /\ FallbackBlob(content).k = "dict"

\* C11: in the fallback the object is classified as the schema when it has
\* a 'properties' key or a '$schema' key (an empty 'properties' included),
\* and as the example otherwise.
C11_FallbackByKeyPresence ==
    FallbackTaken =>
        IF Has(FallbackBlob(content), "properties")
              \/ Has(FallbackBlob(content), "$schema")
        THEN response_schema_json = FallbackBlob(content)
        ELSE response_example_json = FallbackBlob(content)

\* the first line of the text that holds the label 'Error codes', "" when
\* there is none
ErrorCodesLabelLine(text) ==
    LET ls == Split(text, "\n")
        hits == {i \in 1..Len(ls) : Contains(Lower(ls[i]), "error codes")}
    IN  IF hits = {} THEN ""
        ELSE ls[CHOOSE i \in hits : \A j \in hits : i <= j]

\* a symbolic code: an upper-case letter followed by upper-case letters,
\* digits and underscores
IsSymbolicCode(s) ==
    /\ Len(s) >= 2
    /\ IsCharOf(Char(s, 1), UpperLetters)
    /\ \A i \in 1..Len(s) : IsCharOf(Char(s, i), UpperLetters \o Digits \o "_")

\* the item of a comma-separated list without the blanks and the bold marks
\* around it
ListItem(item) == Strip(StripChar(Strip(item), "*"))

IsQuotedCode(item) ==
    /\ Len(item) >= 2
    /\ StartsWith(item, "~") /\ Char(item, Len(item)) = "~"
    /\ IsSymbolicCode(SubSeq(item, 2, Len(item) - 1))

\* the backtick-quoted codes of the comma-separated list after the colon of
\* the line, in order
QuotedCodes(line) ==
    LET items == Split(SubSeq(line, Find(line, ":") + 2, Len(line)), ",")
        quoted == SelectSeq([i \in 1..Len(items) |-> ListItem(items[i])],
                            IsQuotedCode)
    IN  [i \in 1..Len(quoted) |-> SubSeq(quoted[i], 2, Len(quoted[i]) - 1)]

InlineExampleLine == "**Error codes:** ~MISSING_PAYLOAD~, ~INVALID_JSON~"

\* C17: every backtick-quoted code on the 'Error codes:' line becomes one
\* entry of error_codes, in order and before any other entry, with
\* http_status "4xx/5xx" and the description of the lookup table for the code,
\* or the generic default when the table does not have it; the line
\* '**Error codes:** ~MISSING_PAYLOAD~, ~INVALID_JSON~' alone yields exactly
\* these two entries in this order.
C17_InlineCodesBecomeEntries ==
    ParseReturned =>
        LET want == QuotedCodes(ErrorCodesLabelLine(content))
            got == ValueOf("error_codes")
        IN  /\ Len(got) >= Len(want)
            /\ \A i \in 1..Len(want) :
                  got[i] = [code |-> want[i], http_status |-> "4xx/5xx",
                            description |->
                                IF want[i] \in DOMAIN ERROR_CODE_DESCRIPTIONS
                                THEN ERROR_CODE_DESCRIPTIONS[want[i]]
                                ELSE "See RapidAPI docs for details."]
            /\ \A i \in 1..Len(got) : got[i].http_status = "4xx/5xx" => i <= Len(want)
            /\ content = InlineExampleLine =>
                  got = <<[code |-> "MISSING_PAYLOAD", http_status |-> "4xx/5xx",
                           description |-> ERROR_CODE_DESCRIPTIONS["MISSING_PAYLOAD"]],
                          [code |-> "INVALID_JSON", http_status |-> "4xx/5xx",
                           description |-> ERROR_CODE_DESCRIPTIONS["INVALID_JSON"]]>>

\* a line with a code of the table and a code the table does not have was
\* parsed to its two entries
C17_Witness ==
    /\ ParseReturned
    /\ content = "**Error codes:** ~AUTH_INVALID~, ~FOO_BAR~"
    /\ Len(ValueOf("error_codes")) = 2
    /\ ValueOf("error_codes")[1].description = ERROR_CODE_DESCRIPTIONS["AUTH_INVALID"]
    /\ ValueOf("error_codes")[2].description = "See RapidAPI docs for details."

\* the fenced blocks among the lines from the i-th on, each with the tag of
\* its opening fence and its content; cur is the block being read
RECURSIVE FencedBlocks(_, _, _, _)
FencedBlocks(ls, i, inside, cur) ==
    IF i > Len(ls) THEN <<>>
    ELSE IF StartsWith(ls[i], "~~~")
    THEN IF inside
         THEN <<cur>> \o FencedBlocks(ls, i + 1, FALSE, cur)
         ELSE FencedBlocks(ls, i + 1, TRUE,
                           [tag |-> Strip(SubSeq(ls[i], 4, Len(ls[i]))), text |-> ""])
    ELSE IF inside
    THEN FencedBlocks(ls, i + 1, TRUE,
                      [cur EXCEPT !.text = IF @ = "" THEN ls[i] ELSE @ \o "\n" \o ls[i]])
    ELSE FencedBlocks(ls, i + 1, FALSE, cur)

ShortHeadings == {"Short Description", "API Description (Short)"}

\* the text from the first short-description heading on
AfterShortHeading(text) ==
    LET at == {Find(Lower(text), Lower(h)) : h \in ShortHeadings} \ {-1}
    IN  SubSeq(text, (CHOOSE p \in at : \A q \in at : p <= q) + 1, Len(text))

\* the fenced blocks that follow the short-description heading
BlocksAfterShortHeading(text) ==
    FencedBlocks(Split(AfterShortHeading(text), "\n"), 1, FALSE,
                 [tag |-> "", text |-> ""])

\* C19: the short description parse_rapid_md returns is the content of the
\* first fenced block after the 'Short Description' / 'API Description
\* (Short)' heading that carries no language tag: a block tagged markdown (or
\* with another language) that comes first is passed over for the next
\* block, and text between two blocks is never the result.
C19_ShortDescriptionIsBlockContent ==
    (ParseReturned /\ Present("short_description")) =>
        LET plain == SelectSeq(BlocksAfterShortHeading(content),
                               LAMBDA b : b.tag = "")
        IN  /\ plain # <<>>
            /\ ValueOf("short_description") = Strip(Head(plain).text)

\* the first block tagged json that follows the first 'Response <status>'
\* heading: [found, text]
FirstJsonBlockAfter(text, status) ==
    LET at == Find(Lower(text), "response " \o status)
        blocks == IF at = -1 THEN <<>>
                  ELSE SelectSeq(FencedBlocks(Split(SubSeq(text, at + 1, Len(text)), "\n"),
                                              1, FALSE, [tag |-> "", text |-> ""]),
                                 LAMBDA b : b.tag = "json")
    IN  IF blocks = <<>> THEN [found |-> FALSE, text |-> ""]
        ELSE [found |-> TRUE, text |-> Head(blocks).text]

\* the 'error' string of a parsed body, or else its 'code' string; "" when
\* the body is no object or has neither
BodyCode(text) ==
    LET obj == json_loads(Strip(text))
        err == IF ~obj.ok \/ obj.value.k # "dict" THEN JNull
               ELSE IF Truthy(Get(obj.value, "error")) THEN Get(obj.value, "error")
               ELSE Get(obj.value, "code")
    IN  IF err.k = "str" THEN err.s ELSE ""

\* C28: for each of the statuses 400, 413 and 500 the first JSON block after
\* a 'Response <status>' heading adds at most one entry, with the body's
\* 'error' (or else 'code') string as code and the status as http_status,
\* and only when the code is not collected yet: a code found by the inline
\* scan or by an earlier status is not added again, and a code not yet
\* collected is.
C28_StatusBlocksAddOnce ==
    ParseReturned =>
        LET got == ValueOf("error_codes")
        IN  \A status \in {"400", "413", "500"} :
               LET m == FirstJsonBlockAfter(content, status)
                   mine == {j \in 1..Len(got) : got[j].http_status = status}
               IN  /\ Cardinality(mine) <= 1
                   /\ \A j \in mine :
                         /\ m.found /\ got[j].code = BodyCode(m.text)
                         /\ \A i \in 1..(j - 1) : got[i].code # got[j].code
                   /\ (m.found /\ BodyCode(m.text) # "") =>
                         \E j \in 1..Len(got) : got[j].code = BodyCode(m.text)

\* the body of 'Response 500' repeats the code that 'Response 400' gave, and
\* 'Response 400' keeps the only entry for it
C28_Witness ==
    /\ ParseReturned
    /\ FirstJsonBlockAfter(content, "400").found
    /\ FirstJsonBlockAfter(content, "500").found
    /\ BodyCode(FirstJsonBlockAfter(content, "500").text) = "INVALID_JSON"
    /\ Len(ValueOf("error_codes")) = 1
    /\ ValueOf("error_codes")[1].http_status = "400"

(***************************************************************************)
(* Claims about the patch scripts (checked under SpecPatch)                *)
(***************************************************************************)
\* a run after the first has ended
RunRepeated == patch_pc = "end" /\ run_no >= 2

\* texts that occur once in each block the scripts insert
InsertedBlocks ==
    { GlobalNavOpen, "Try on RapidAPI</a>", "<meta property=\"og:image\"",
      "\"author\":", "\"@type\":\"BreadcrumbList\"", "\"@type\":\"FAQPage\"",
      ".cta-primary {", "<h2 id=\"related\">", FaqHeading, FaqScriptMarker }

\* C3: both patch scripts are idempotent on the file: a second run in
\* succession leaves exactly the text the first run left, and no inserted
\* block occurs more often after the second run than after the first.
C3_PatchIdempotent ==
    RunRepeated =>
        /\ file = previous
        /\ \A block \in InsertedBlocks : Count(file, block) <= Count(previous, block)

\* enhance_api_pages.py lines 203-217: the page passes the early-exit checks
PassesEarlyExits(page) == ~AlreadyEnhanced(page) /\ HasFlatLdJson(page)

\* a run of the script has ended
RunEnded(name) == script = name /\ patch_pc = "end"

\* the global nav element stands before the breadcrumb
NavBeforeBreadcrumb(page) ==
    /\ Contains(page, GlobalNavOpen)
    /\ Find(page, GlobalNavOpen) < Find(page, BreadcrumbOpen)

\* the 'Try on RapidAPI' link stands between an h1 and the lead paragraph
\* that follows the h1
CtaBetweenH1AndLead(page) ==
    \E p \in 1..Len(page) :
        LET lead == FindFrom(page, LeadOpen, p)
            cta == FindFrom(page, "Try on RapidAPI</a>", p)
        IN  /\ StartsWithAt(page, "<h1>", p)
            /\ lead # 0 /\ cta # 0 /\ cta < lead

\* C24: a run of enhance_api_pages.main on a page that passes the early-exit
\* checks, has the '.postman-btn:hover' rule, a breadcrumb nav and an h1
\* followed by the lead paragraph, and has no global nav element and no CTA
\* link, writes a page with the global nav element before the breadcrumb and
\* the CTA link between the h1 and the lead paragraph.
C24_EnhanceAddsNavAndCta ==
    ( /\ RunEnded("enhance_api_pages")
      /\ PassesEarlyExits(previous)
      /\ Contains(previous, PostmanHoverRule)
      /\ Contains(previous, BreadcrumbOpen)
      /\ H1Lead(previous).found
      /\ ~Contains(previous, GlobalNavOpen)
      /\ ~Contains(previous, "Try on RapidAPI") )
    => /\ written
       /\ NavBeforeBreadcrumb(file)
       /\ CtaBetweenH1AndLead(file)

\* C25: a run of add_nav_cta_og.main on a page with an h1 followed by the
\* lead paragraph and no 'Try on RapidAPI' link before the lead paragraph
\* writes a page with the CTA link between the h1 and the lead paragraph,
\* also when 'cta-primary' occurs earlier in the page.
C25_AddNavAddsMissingCta ==
    ( /\ RunEnded("add_nav_cta_og")
      /\ H1Lead(previous).found
      /\ ~Contains(SubSeq(previous, 1, Find(previous, LeadOpen)), "Try on RapidAPI") )
    => /\ written
       /\ CtaBetweenH1AndLead(file)

\* C26: a run of add_nav_cta_og.main whose nav, CTA and og/twitter steps all
\* leave the loaded document unchanged does not write the file and does not
\* report 'Updated'.
C26_WrittenOnlyIfChanged ==
    (RunEnded("add_nav_cta_og") /\ html = previous) => ~written

\* C27: a run of enhance_api_pages.main on a page without og:image that
\* passes the early-exit checks writes the og:url/og:image/og:type/twitter
\* block after the canonical link, for both forms of the canonical link,
\* and the run after it exits as already enhanced.
C27_EnhanceAddsOgAfterCanonical ==
    ( /\ RunEnded("enhance_api_pages")
      /\ PassesEarlyExits(previous)
      /\ ~Contains(previous, "og:image") )
    => /\ written
       /\ \E p \in 1..Len(file) :
             /\ StartsWithAt(file, CanonicalOpen, p)
             /\ LET q == FindFrom(file, ">", p)
                IN  StartsWithAt(file, "\n" \o OgTwitterLines(EnhanceTitle(previous), CONFIG.twitter_short), q + 1)
       /\ AlreadyEnhanced(file)

(***************************************************************************)
(* Claims about load_rapid_data (checked under SpecLoad)                   *)
(***************************************************************************)
\* the error_codes of a record
ErrorCodesOf(record) ==
    record[CHOOSE i \in 1..Len(record) : record[i].key = "error_codes"].val

\* the entries of a record other than error_codes
OtherEntries(record) == SelectSeq(record, LAMBDA e : e.key # "error_codes")

\* the step with which load_rapid_data returns its record
LoadReturnsRecord ==
    load_pc # "done" /\ load_pc' = "done" /\ load_result' = "record"

\* what the README table parser yields for the folder: nothing without a
\* readable README
ReadmeCodes ==
    IF readme_file.state = "file"
    THEN _parse_readme_error_table(readme_file.text) ELSE <<>>

\* C18: when the README error table parser yields at least one entry, the
\* error_codes of the record load_rapid_data returns are exactly the
\* parser's entries: what the scan of Rapid.md found is replaced, not merged;
\* when the parser yields nothing or there is no README, error_codes is what
\* parse_rapid_md found.  The other fields are those of parse_rapid_md.
C18_ReadmeCodesReplace ==
    [][LoadReturnsRecord =>
          /\ ErrorCodesOf(out') =
                IF ReadmeCodes # <<>> THEN ReadmeCodes
                ELSE _parse_error_codes(rapid_file.text).codes
          /\ OtherEntries(out') = OtherEntries(out)]_vars

\* Rapid.md lists codes inline, the README table gives other codes, and the
\* record returned holds the codes of the table only
C18_Witness ==
    /\ load_result = "record"
    /\ Contains(rapid_file.text, "FOO_BAR")
    /\ ReadmeCodes # <<>>
    /\ ErrorCodesOf(out) = ReadmeCodes
    /\ \A i \in 1..Len(ErrorCodesOf(out)) : ErrorCodesOf(out)[i].code # "FOO_BAR"

\* parse_rapid_md has returned to load_rapid_data and out is still its record
RapidParsed == load_pc \in {"parse", "table"} /\ parse_pc = "done" /\ ~parse_raised

LookupCodes == DOMAIN ERROR_CODE_DESCRIPTIONS

\* C29 as stated: every code in the entries of _parse_error_codes and of
\* _parse_readme_error_table occurs literally in the document the function
\* was given, and a code of the lookup table that the document does not hold
\* is in no entry.
C29_CodesLiteralInDocument ==
    /\ \A i \in 1..Len(codes) :
          /\ Contains(readme_content, codes[i].code)
    /\ \A c \in LookupCodes :
          ~Contains(readme_content, c) => \A i \in 1..Len(codes) : codes[i].code # c
    /\ RapidParsed =>
          /\ \A i \in 1..Len(ErrorCodesOf(out)) :
                Contains(content, ErrorCodesOf(out)[i].code)
          /\ \A c \in LookupCodes :
                ~Contains(content, c) =>
                    \A i \in 1..Len(ErrorCodesOf(out)) : ErrorCodesOf(out)[i].code # c

\* C29 amended: every code of _parse_readme_error_table and every inline
\* code of _parse_error_codes occurs literally in the document; every code
\* with a status 400, 413 or 500 is the decoded 'error' (or else 'code')
\* string of the first JSON body after that status' heading.  The lookup
\* table gives descriptions only.
C29_CodesFromDocument ==
    /\ \A i \in 1..Len(codes) : Contains(readme_content, codes[i].code)
    /\ RapidParsed =>
          \A i \in 1..Len(ErrorCodesOf(out)) :
             LET e == ErrorCodesOf(out)[i]
             IN  IF e.http_status \in {"400", "413", "500"}
                 THEN /\ FirstJsonBlockAfter(content, e.http_status).found
                      /\ e.code = BodyCode(FirstJsonBlockAfter(content, e.http_status).text)
                 ELSE Contains(content, e.code)

\* Rapid.md gave a code of the lookup table through a JSON escape, the
\* README a code in lower case whose upper-case form is in the table
C29_Witness ==
    /\ load_pc = "table" /\ table_pc = "done"
    /\ Len(ErrorCodesOf(out)) = 1
    /\ ErrorCodesOf(out)[1].code = "INVALID_JSON"
    /\ ~Contains(content, "INVALID_JSON")
    /\ Len(codes) = 1 /\ codes[1].code = "auth_invalid"

(***************************************************************************)
(* Claims about generate_api_pages.main (checked under SpecMain)           *)
(***************************************************************************)
\* the overrides of the entry the loop is at have been applied
OverridesApplied == main_pc = "page"

\* the entry has no documentation folder or no Rapid.md in it
NoDocumentation(i) == slug_folder[i] = "" \/ docs[i].rapid.state = "absent"

\* the value load_rapid_data extracted for the key is missing or empty
\* ('' or [])
EmptyOrMissing(key) ==
    \/ load_result # "record"
    \/ ~HasKey(out, key)
    \/ Len(Item(out, key)) = 0

\* the entry holds for the key what the static entry holds, or lacks the
\* key as the static entry does
StaticInPlace(c, static, key) ==
    IF HasKey(static, key)
    THEN HasKey(c, key) /\ Item(c, key) = Item(static, key)
    ELSE ~HasKey(c, key)

\* C21: an entry with no documentation folder or no Rapid.md keeps its
\* static configuration; for an entry with documentation each of
\* description, long_description, path, body, request_schema,
\* response_schema and error_codes is overridden only when the extracted
\* value is non-empty (then it holds the extracted value), an empty or
\* missing extracted value leaves the static value in place; the keys main
\* does not override and the entries the loop has not reached are unchanged.
C21_OverrideOnlyNonEmpty ==
    /\ \A i \in 1..Len(config) :
          NoDocumentation(i) \/ i > entry_no => config[i] = STATIC_CONFIG[i]
    /\ OverridesApplied =>
          LET c == config[entry_no]
              static == STATIC_CONFIG[entry_no]
          IN  /\ \A n \in 1..Len(OVERRIDES) :
                    IF EmptyOrMissing(OVERRIDES[n][1])
                    THEN StaticInPlace(c, static, OVERRIDES[n][2])
                    ELSE \/ StaticInPlace(c, static, OVERRIDES[n][2])
                         \/ /\ HasKey(c, OVERRIDES[n][2])
                            /\ Item(c, OVERRIDES[n][2]) = Item(out, OVERRIDES[n][1])
              /\ StaticInPlace(c, static, "slug")

\* an entry with documentation: the non-empty path is taken over, the empty
\* short description leaves the static description in place
C21_Witness ==
    /\ OverridesApplied /\ load_result = "record"
    /\ HasKey(out, "short_description") /\ Item(out, "short_description") = ""
    /\ Item(config[entry_no], "description") = Item(STATIC_CONFIG[entry_no], "description")
    /\ Item(out, "path") = "/normalize"
    /\ Item(config[entry_no], "path") = "/normalize"
    /\ Item(STATIC_CONFIG[entry_no], "path") = "/extract"

\* the run of main has ended: it returned, or an exception left it
MainEnded == main_pc \in {"done", "raised"}

\* the page of each entry, in the order of CONFIG
PageFiles ==
    [i \in 1..Len(STATIC_CONFIG) |-> "apis/" \o Item(STATIC_CONFIG[i], "slug") \o ".html"]

\* the files of a run, in the order the claim gives
AllFiles == PageFiles \o <<"sitemap.xml", "robots.txt">>

\* the <loc> lines of the root URL and of one URL per entry
AllLocs ==
    <<"    <loc>" \o BASE \o "/</loc>">>
    \o [i \in 1..Len(STATIC_CONFIG) |->
           "    <loc>" \o BASE \o "/apis/" \o Item(STATIC_CONFIG[i], "slug")
           \o ".html</loc>"]

\* C22: one run of main writes exactly one HTML file per CONFIG entry, in
\* the order of CONFIG, after all of them the sitemap and then the robots
\* file: at every moment the files written are the first files of that
\* list, and when the run is over they are the whole list; the sitemap
\* lists the root URL and exactly one URL per entry.
C22_OnePagePerEntryThenSitemapRobots ==
    /\ Len(wrote) <= Len(AllFiles)
    /\ wrote = SubSeq(AllFiles, 1, Len(wrote))
    /\ MainEnded => wrote = AllFiles
    /\ MainEnded => sitemap = AllLocs

(***************************************************************************)
(* Claims about long_description_to_html (checked under SpecDesc)          *)
(***************************************************************************)
\* the positions of text where the tag starts
TagPositions(text, tag) == {p \in 1..Len(text) : StartsWithAt(text, tag, p)}

\* the number of lists open at position p of text: the <ul> before p less
\* the </ul> before p
OpenLists(text, p) ==
    Cardinality({q \in TagPositions(text, "<ul>") : q < p})
    - Cardinality({q \in TagPositions(text, "</ul>") : q < p})

\* <ul> only while no list is open, </ul> and <li> only while one is open,
\* <p> and the end of the text only while none is open
WellNested(text) ==
    /\ \A p \in TagPositions(text, "<ul>") : OpenLists(text, p) = 0
    /\ \A p \in TagPositions(text, "</ul>") : OpenLists(text, p) = 1
    /\ \A p \in TagPositions(text, "<li>") : OpenLists(text, p) = 1
    /\ \A p \in TagPositions(text, "<p>") : OpenLists(text, p) = 0
    /\ OpenLists(text, Len(text) + 1) = 0

\* long_description_to_html has returned
DescReturned == desc_pc = "done"

\* C30: the text long_description_to_html returns has well-nested list
\* markup for every input: each <ul> is closed by exactly one </ul> before
\* the next <p> or the end of the text, no <ul> is opened while a list is
\* open, and every <li> lies between a <ul> and its </ul>.
C30_ListMarkupWellNested ==
    DescReturned => WellNested(desc_html)

\* two lists with a paragraph between them, the paragraph made of a line
\* that holds list tags itself
C30_Witness ==
    /\ DescReturned
    /\ Count(desc_html, "<ul>") = 2 /\ Count(desc_html, "</ul>") = 2
    /\ Contains(desc_html, "<p>&lt;ul&gt;")

====
